---- MODULE Spec2Model ----
(***************************************************************************)
(* Cross-shard receipt sink with congestion control                        *)
(* (runtime/runtime/src/congestion_control.rs).                            *)
(*                                                                         *)
(* One shard executes chunks.  During a chunk the runtime offers receipts  *)
(* to a ReceiptSinkV2, which forwards them (outgoing_receipts) or buffers  *)
(* them in a per-destination trie queue, drains the buffers under the      *)
(* per-destination OutgoingLimit, and keeps the shard's own CongestionInfo *)
(* up to date.  A DelayedReceiptQueueWrapper accumulates the gas and bytes *)
(* pushed to and popped from the delayed receipt queue.                    *)
(***************************************************************************)
EXTENDS Integers, Sequences, FiniteSets, TLC

(***************************************************************************)
(* Bounds of the model.                                                    *)
(***************************************************************************)
\* u64 (Gas, sizes, receipt_bytes), scaled: every addition is checked against it
U64_MAX == 2097151
\* u128 (the accumulated gas of CongestionInfo), scaled
U128_MAX == 8388607
\* receipts created (offered to the sink or pushed to the delayed queue) in a run
MaxReceipts == 3
\* chunks applied in a run
MaxChunks == 2

(***************************************************************************)
(* Shards and accounts.                                                    *)
(***************************************************************************)
ShardIds == {0, 1, 2}

\* apply_state.shard_id
own_shard == 0

\* keys of apply_state.congestion_info: shard 2 advertises no congestion info
InfoShards == {0, 1}

Accounts == {"own", "peer", "far"}

\* EpochInfoProvider::account_id_to_shard_id
account_id_to_shard_id(account) ==
    CASE account = "own" -> 0
      [] account = "peer" -> 1
      [] account = "far" -> 2

(***************************************************************************)
(* Runtime configuration (apply_state.config).                             *)
(***************************************************************************)
ConfigPlain ==
    [use_state_stored_receipt |-> FALSE, exec_fee |-> 20, send_fee |-> 20,
     new_action_receipt_fee |-> 10, outgoing_receipts_usual_size_limit |-> 500]

ConfigStateStored == [ConfigPlain EXCEPT !.use_state_stored_receipt = TRUE]

ConfigHigherFees ==
    [ConfigStateStored EXCEPT !.exec_fee = 40, !.send_fee = 40, !.new_action_receipt_fee = 20]

\* a protocol upgrade that lowers the action fees
ConfigLowerFees ==
    [ConfigStateStored EXCEPT !.exec_fee = 10, !.send_fee = 10, !.new_action_receipt_fee = 5]

Configs == {ConfigPlain, ConfigStateStored, ConfigHigherFees, ConfigLowerFees}

\* the configs a protocol upgrade between two chunks may bring
Upgrades(cfg) == {cfg, ConfigHigherFees}

\* Gas::MAX
GasMAX == U64_MAX

(***************************************************************************)
(* Receipts.  A receipt is its receiver, its payload variant, the number   *)
(* of its actions, the gas attached to its function calls and the length   *)
(* of its borsh serialisation.                                             *)
(***************************************************************************)
ReceiptKinds == {"Action", "Data", "PromiseYield", "PromiseResume"}

\* what the runtime produces in a run: the receipts of one of the workloads;
\* the workload "window" is that of a run starting in the upgrade window
Workloads == {"drain", "limit", "setup", "big", "bootstrap", "overflow", "totals"}

ReceiptInputs(workload) ==
    IF workload = "drain" THEN
    { [receiver_id |-> "peer", kind |-> "Action", actions |-> 1, prepaid_gas |-> 50, borsh_len |-> 10],
      [receiver_id |-> "peer", kind |-> "Action", actions |-> 1, prepaid_gas |-> 850, borsh_len |-> 10],
      [receiver_id |-> "peer", kind |-> "Action", actions |-> 1, prepaid_gas |-> 0, borsh_len |-> 10] }
    ELSE IF workload = "limit" THEN
    { [receiver_id |-> "peer", kind |-> "Action", actions |-> 1, prepaid_gas |-> 550, borsh_len |-> 300],
      [receiver_id |-> "peer", kind |-> "Action", actions |-> 1, prepaid_gas |-> 350, borsh_len |-> 200],
      [receiver_id |-> "own", kind |-> "Action", actions |-> 1, prepaid_gas |-> 850, borsh_len |-> 300],
      [receiver_id |-> "far", kind |-> "Data", actions |-> 0, prepaid_gas |-> 0, borsh_len |-> 200] }
    ELSE IF workload = "setup" THEN
    { [receiver_id |-> "peer", kind |-> "Action", actions |-> 1, prepaid_gas |-> 950, borsh_len |-> 100],
      [receiver_id |-> "peer", kind |-> "Action", actions |-> 1, prepaid_gas |-> 50, borsh_len |-> 600] }
    ELSE IF workload = "window" THEN
    { [receiver_id |-> "peer", kind |-> "Action", actions |-> 1, prepaid_gas |-> 850, borsh_len |-> 10],
      [receiver_id |-> "peer", kind |-> "Action", actions |-> 1, prepaid_gas |-> 0, borsh_len |-> 10] }
    ELSE IF workload = "overflow" THEN
    \* a receipt of more than half of u64::MAX bytes
    { [receiver_id |-> "peer", kind |-> "Data", actions |-> 0, prepaid_gas |-> 0,
       borsh_len |-> (U64_MAX \div 2) + 1] }
    ELSE IF workload = "totals" THEN
    \* a receipt with little gas, and one of u64::MAX bytes for a shard without limit
    { [receiver_id |-> "peer", kind |-> "Action", actions |-> 0, prepaid_gas |-> 0, borsh_len |-> 10],
      [receiver_id |-> "far", kind |-> "Data", actions |-> 0, prepaid_gas |-> 0,
       borsh_len |-> U64_MAX] }
    ELSE IF workload = "bootstrap" THEN
    \* action receipts without actions: their gas is the new_action_receipt fee
    { [receiver_id |-> "peer", kind |-> "Action", actions |-> 0, prepaid_gas |-> 0, borsh_len |-> 3],
      [receiver_id |-> "own", kind |-> "Action", actions |-> 0, prepaid_gas |-> 0, borsh_len |-> 4] }
    ELSE
    \* gas above half of Gas::MAX; gas of Gas::MAX under the fees of ConfigPlain
    \* and overflowing under higher fees; gas overflowing under any fees
    { [receiver_id |-> "own", kind |-> "Action", actions |-> 1,
       prepaid_gas |-> (U64_MAX \div 2) + 1, borsh_len |-> 10],
      [receiver_id |-> "own", kind |-> "Action", actions |-> 1,
       prepaid_gas |-> U64_MAX - 50, borsh_len |-> 10],
      [receiver_id |-> "peer", kind |-> "Action", actions |-> 1,
       prepaid_gas |-> U64_MAX, borsh_len |-> 10] }

\* the incoming receipts the shard delays
DelayedInputs(workload) ==
    IF workload \in {"drain", "window"} THEN
    { [receiver_id |-> "own", kind |-> "Action", actions |-> 1, prepaid_gas |-> 850, borsh_len |-> 300] }
    ELSE IF workload = "bootstrap" THEN
    { [receiver_id |-> "own", kind |-> "Action", actions |-> 1, prepaid_gas |-> 1184, borsh_len |-> 567] }
    ELSE IF workload = "overflow" THEN
    \* more than half of u64::MAX bytes; gas of Gas::MAX under the fees of ConfigPlain
    { [receiver_id |-> "own", kind |-> "Data", actions |-> 0, prepaid_gas |-> 0,
       borsh_len |-> (U64_MAX \div 2) + 1],
      [receiver_id |-> "own", kind |-> "Action", actions |-> 1,
       prepaid_gas |-> U64_MAX - 50, borsh_len |-> 10] }
    ELSE {}

\* the outgoing buffers earlier chunks left: in the workload "totals" the peer's
\* holds four receipts of Gas::MAX each, which is all but 3 of the scaled u128::MAX
StartBuffers(workload) ==
    [d \in ShardIds |->
        IF workload = "totals" /\ d = 1
        THEN [i \in 1..4 |->
                 [stored |-> "Receipt",
                  receipt |-> [receipt_id |-> i - 4, receiver_id |-> "peer", kind |-> "Action",
                               actions |-> 1, prepaid_gas |-> U64_MAX - 50, borsh_len |-> 10],
                  metadata |-> [congestion_gas |-> 0, congestion_size |-> 0]]]
        ELSE <<>>]

\* the delayed queue earlier chunks have left: empty, or in the workload
\* "overflow" four receipts of gas Gas::MAX, which fill the u128 of
\* delayed_receipts_gas (as scaled) to its last receipt
StartQueue(workload) ==
    IF workload = "overflow"
    THEN [i \in 1..4 |->
             [stored |-> "Receipt",
              receipt |-> [receipt_id |-> i - 4, receiver_id |-> "own", kind |-> "Action",
                           actions |-> 1, prepaid_gas |-> U64_MAX - 50, borsh_len |-> 10],
              metadata |-> [congestion_gas |-> 0, congestion_size |-> 0]]]
    ELSE <<>>

MakeReceipt(input, id) ==
    [receipt_id |-> id, receiver_id |-> input.receiver_id, kind |-> input.kind,
     actions |-> input.actions, prepaid_gas |-> input.prepaid_gas,
     borsh_len |-> input.borsh_len]

(***************************************************************************)
(* Checked arithmetic.  A result is [ok, val].                             *)
(***************************************************************************)
Ok(v) == [ok |-> TRUE, val |-> v]

Fail == [ok |-> FALSE, val |-> 0]

\* config::safe_add_gas: u64 checked_add
safe_add_gas(a, b) == IF a + b > U64_MAX THEN Fail ELSE Ok(a + b)

\* safe_add_gas_to_u128 saturating at u128::MAX
safe_add_gas_to_u128_saturating(a, b) == IF a + b > U128_MAX THEN Ok(U128_MAX) ELSE Ok(a + b)

\* safe_add_gas_to_u128
safe_add_gas_to_u128(a, b) == IF a + b > U128_MAX THEN Fail ELSE Ok(a + b)

\* config::total_prepaid_exec_fees: the exec fee of every action
total_prepaid_exec_fees(config, receipt) ==
    IF receipt.actions * config.exec_fee > U64_MAX THEN Fail
    ELSE Ok(receipt.actions * config.exec_fee)

\* config::total_prepaid_send_fees: the send fee of every action
total_prepaid_send_fees(config, receipt) ==
    IF receipt.actions * config.send_fee > U64_MAX THEN Fail
    ELSE Ok(receipt.actions * config.send_fee)

\* config::total_prepaid_gas: the gas attached to function calls
total_prepaid_gas(receipt) ==
    IF receipt.prepaid_gas > U64_MAX THEN Fail ELSE Ok(receipt.prepaid_gas)

compute_receipt_congestion_gas(receipt, config) ==
    IF receipt.kind = "Action" THEN
        LET exec == total_prepaid_exec_fees(config, receipt)
            prepaid_exec_gas ==
                IF exec.ok THEN safe_add_gas(exec.val, config.new_action_receipt_fee) ELSE Fail
            prepaid_send_gas == total_prepaid_send_fees(config, receipt)
            prepaid_gas ==
                IF prepaid_exec_gas.ok /\ prepaid_send_gas.ok
                THEN safe_add_gas(prepaid_exec_gas.val, prepaid_send_gas.val) ELSE Fail
            gas_attached_to_fns == total_prepaid_gas(receipt)
        IN  IF prepaid_gas.ok /\ gas_attached_to_fns.ok
            THEN safe_add_gas(gas_attached_to_fns.val, prepaid_gas.val) ELSE Fail
    ELSE Ok(0)

compute_receipt_size(receipt) ==
    IF receipt.borsh_len > U64_MAX THEN Fail ELSE Ok(receipt.borsh_len)

(***************************************************************************)
(* Receipts as stored in the trie: ReceiptOrStateStoredReceipt.            *)
(***************************************************************************)
PlainReceipt(receipt) ==
    [stored |-> "Receipt", receipt |-> receipt,
     metadata |-> [congestion_gas |-> 0, congestion_size |-> 0]]

StateStoredReceipt(receipt, gas, size) ==
    [stored |-> "StateStoredReceipt", receipt |-> receipt,
     metadata |-> [congestion_gas |-> gas, congestion_size |-> size]]

should_update_outgoing_metadatas(stored) == stored.stored = "StateStoredReceipt"

\* receipt_congestion_gas computing the gas whatever the receipt is stored as
receipt_congestion_gas_recomputed(stored, config) ==
    compute_receipt_congestion_gas(stored.receipt, config)

receipt_congestion_gas(stored, config) ==
    IF stored.stored = "Receipt"
    THEN compute_receipt_congestion_gas(stored.receipt, config)
    ELSE Ok(stored.metadata.congestion_gas)

receipt_size(stored) ==
    IF stored.stored = "Receipt"
    THEN compute_receipt_size(stored.receipt)
    ELSE Ok(stored.metadata.congestion_size)

(***************************************************************************)
(* CongestionInfo: the running totals of the shard.  Every update is       *)
(* checked; a result is [ok, val].                                         *)
(***************************************************************************)
CongestionInfoV1(delayed_gas, buffered_gas, bytes, allowed) ==
    [delayed_receipts_gas |-> delayed_gas, buffered_receipts_gas |-> buffered_gas,
     receipt_bytes |-> bytes, allowed_shard |-> allowed]

add_receipt_bytes(info, bytes) ==
    IF info.receipt_bytes + bytes > U64_MAX THEN Fail
    ELSE Ok([info EXCEPT !.receipt_bytes = @ + bytes])

remove_receipt_bytes(info, bytes) ==
    IF info.receipt_bytes < bytes THEN Fail
    ELSE Ok([info EXCEPT !.receipt_bytes = @ - bytes])

add_buffered_receipt_gas(info, gas) ==
    IF info.buffered_receipts_gas + gas > U128_MAX THEN Fail
    ELSE Ok([info EXCEPT !.buffered_receipts_gas = @ + gas])

\* remove_buffered_receipt_gas stopping at zero
remove_buffered_receipt_gas_saturating(info, gas) ==
    IF info.buffered_receipts_gas < gas THEN Ok([info EXCEPT !.buffered_receipts_gas = 0])
    ELSE Ok([info EXCEPT !.buffered_receipts_gas = @ - gas])

remove_buffered_receipt_gas(info, gas) ==
    IF info.buffered_receipts_gas < gas THEN Fail
    ELSE Ok([info EXCEPT !.buffered_receipts_gas = @ - gas])

add_delayed_receipt_gas(info, gas) ==
    IF info.delayed_receipts_gas + gas > U128_MAX THEN Fail
    ELSE Ok([info EXCEPT !.delayed_receipts_gas = @ + gas])

remove_delayed_receipt_gas(info, gas) ==
    IF info.delayed_receipts_gas < gas THEN Fail
    ELSE Ok([info EXCEPT !.delayed_receipts_gas = @ - gas])

(***************************************************************************)
(* Trie queues (TrieQueue) and the outgoing metadata of a buffer.          *)
(***************************************************************************)
push_back(queue, stored) == Append(queue, stored)

pop_n(queue, n) == SubSeq(queue, n + 1, Len(queue))

NoMetadata == [present |-> FALSE, total_receipts_num |-> 0, total_size |-> 0, total_gas |-> 0]

update_on_receipt_pushed(metadatas, shard, size, gas) ==
    [metadatas EXCEPT ![shard] =
        [present |-> TRUE, total_receipts_num |-> @.total_receipts_num + 1,
         total_size |-> @.total_size + size, total_gas |-> @.total_gas + gas]]

update_on_receipt_popped(metadatas, shard, size, gas) ==
    [metadatas EXCEPT ![shard] =
        [present |-> @.present, total_receipts_num |-> @.total_receipts_num - 1,
         total_size |-> @.total_size - size, total_gas |-> @.total_gas - gas]]

(***************************************************************************)
(* ReceiptSinkV2.  `self` is the sink with the trie update it writes to:   *)
(*   own_congestion_info, outgoing_receipts, outgoing_limit,               *)
(*   outgoing_buffers, outgoing_metadatas, err (the error returned, or     *)
(*   "none"), and two records of what try_forward was called with:         *)
(*   forwarded (the shard, gas and size of every forwarded receipt) and    *)
(*   not_forwarded (the shards try_forward answered NotForwarded for).     *)
(* `self.trie` is state_update.trie: the outgoing buffers as the trie the  *)
(* chunk started from holds them.                                          *)
(***************************************************************************)
NoLimit == [present |-> FALSE, gas |-> 0, size |-> 0]

OutgoingLimit(gas, size) == [present |-> TRUE, gas |-> gas, size |-> size]

default_outgoing_limit(config) ==
    OutgoingLimit(GasMAX, config.outgoing_receipts_usual_size_limit)

\* every shard, whether outgoing_limit has an entry for it or not
outgoing_limit_keys_every_shard(outgoing_limit) == ShardIds

\* outgoing_limit.keys()
outgoing_limit_keys(outgoing_limit) == {d \in ShardIds : outgoing_limit[d].present}

\* outgoing_limit.entry(shard).or_insert(default_outgoing_limit)
entry_or_insert(outgoing_limit, shard, default) ==
    IF outgoing_limit[shard].present THEN outgoing_limit
    ELSE [outgoing_limit EXCEPT ![shard] = default]

\* try_forward with `>=` in place of `>`
try_forward_nonstrict(receipt, gas, size, shard, self, config) ==
    LET limits == entry_or_insert(self.outgoing_limit, shard, default_outgoing_limit(config))
        forward_limit == limits[shard]
    IN  IF forward_limit.gas >= gas /\ forward_limit.size >= size
        THEN [forwarding |-> "Forwarded",
              self |-> [self EXCEPT
                  !.outgoing_receipts = Append(@, receipt),
                  !.outgoing_limit = [limits EXCEPT ![shard] =
                      OutgoingLimit(forward_limit.gas - gas, forward_limit.size - size)],
                  !.forwarded = Append(@, [shard |-> shard, gas |-> gas, size |-> size])]]
        ELSE [forwarding |-> "NotForwarded",
              self |-> [self EXCEPT !.outgoing_limit = limits,
                                    !.not_forwarded = @ \cup {shard}]]

\* try_forward without `forward_limit.gas -= gas`
try_forward_keeps_gas(receipt, gas, size, shard, self, config) ==
    LET limits == entry_or_insert(self.outgoing_limit, shard, default_outgoing_limit(config))
        forward_limit == limits[shard]
    IN  IF forward_limit.gas > gas /\ forward_limit.size > size
        THEN [forwarding |-> "Forwarded",
              self |-> [self EXCEPT
                  !.outgoing_receipts = Append(@, receipt),
                  !.outgoing_limit = [limits EXCEPT ![shard] =
                      OutgoingLimit(forward_limit.gas, forward_limit.size - size)],
                  !.forwarded = Append(@, [shard |-> shard, gas |-> gas, size |-> size])]]
        ELSE [forwarding |-> "NotForwarded",
              self |-> [self EXCEPT !.outgoing_limit = limits,
                                    !.not_forwarded = @ \cup {shard}]]

\* try_forward taking the gas from the limit of every shard
try_forward_shared_gas(receipt, gas, size, shard, self, config) ==
    LET limits == entry_or_insert(self.outgoing_limit, shard, default_outgoing_limit(config))
        forward_limit == limits[shard]
    IN  IF forward_limit.gas > gas /\ forward_limit.size > size
        THEN [forwarding |-> "Forwarded",
              self |-> [self EXCEPT
                  !.outgoing_receipts = Append(@, receipt),
                  !.outgoing_limit = [e \in ShardIds |->
                      IF e = shard
                      THEN OutgoingLimit(forward_limit.gas - gas, forward_limit.size - size)
                      ELSE IF limits[e].present /\ limits[e].gas > gas
                           THEN OutgoingLimit(limits[e].gas - gas, limits[e].size)
                      ELSE limits[e]],
                  !.forwarded = Append(@, [shard |-> shard, gas |-> gas, size |-> size])]]
        ELSE [forwarding |-> "NotForwarded",
              self |-> [self EXCEPT !.outgoing_limit = limits,
                                    !.not_forwarded = @ \cup {shard}]]

\* try_forward deciding by the gas alone
try_forward_ignores_size(receipt, gas, size, shard, self, config) ==
    LET limits == entry_or_insert(self.outgoing_limit, shard, default_outgoing_limit(config))
        forward_limit == limits[shard]
    IN  IF forward_limit.gas > gas
        THEN [forwarding |-> "Forwarded",
              self |-> [self EXCEPT
                  !.outgoing_receipts = Append(@, receipt),
                  !.outgoing_limit = [limits EXCEPT ![shard] =
                      OutgoingLimit(forward_limit.gas - gas, forward_limit.size - size)],
                  !.forwarded = Append(@, [shard |-> shard, gas |-> gas, size |-> size])]]
        ELSE [forwarding |-> "NotForwarded",
              self |-> [self EXCEPT !.outgoing_limit = limits,
                                    !.not_forwarded = @ \cup {shard}]]

try_forward(receipt, gas, size, shard, self, config) ==
    LET limits == entry_or_insert(self.outgoing_limit, shard, default_outgoing_limit(config))
        forward_limit == limits[shard]
    IN  IF forward_limit.gas > gas /\ forward_limit.size > size
        THEN [forwarding |-> "Forwarded",
              self |-> [self EXCEPT
                  !.outgoing_receipts = Append(@, receipt),
                  !.outgoing_limit = [limits EXCEPT ![shard] =
                      OutgoingLimit(forward_limit.gas - gas, forward_limit.size - size)],
                  !.forwarded = Append(@, [shard |-> shard, gas |-> gas, size |-> size])]]
        ELSE [forwarding |-> "NotForwarded",
              self |-> [self EXCEPT !.outgoing_limit = limits,
                                    !.not_forwarded = @ \cup {shard}]]

\* the `?` on a CongestionInfo update: the new info, or the error
with_congestion_info(self, result) ==
    IF result.ok THEN [self EXCEPT !.own_congestion_info = result.val]
    ELSE [self EXCEPT !.err = "IntegerOverflow"]

\* buffer_receipt pushing at the head of the queue
buffer_receipt_at_head(self, receipt, size, gas, shard, use_state_stored_receipt) ==
    LET stored == IF use_state_stored_receipt THEN StateStoredReceipt(receipt, gas, size)
                  ELSE PlainReceipt(receipt)
        s1 == with_congestion_info(self, add_receipt_bytes(self.own_congestion_info, size))
        s2 == IF s1.err # "none" THEN s1
              ELSE with_congestion_info(s1, add_buffered_receipt_gas(s1.own_congestion_info, gas))
    IN  IF s2.err # "none" THEN s2
        ELSE [s2 EXCEPT
            !.outgoing_metadatas =
                IF should_update_outgoing_metadatas(stored)
                THEN update_on_receipt_pushed(@, shard, size, gas) ELSE @,
            !.outgoing_buffers[shard] = <<stored>> \o @]

\* buffer_receipt adding the gas where the size belongs and the size where the gas belongs
buffer_receipt_swapped(self, receipt, size, gas, shard, use_state_stored_receipt) ==
    LET stored == IF use_state_stored_receipt THEN StateStoredReceipt(receipt, gas, size)
                  ELSE PlainReceipt(receipt)
        s1 == with_congestion_info(self, add_receipt_bytes(self.own_congestion_info, gas))
        s2 == IF s1.err # "none" THEN s1
              ELSE with_congestion_info(s1, add_buffered_receipt_gas(s1.own_congestion_info, size))
    IN  IF s2.err # "none" THEN s2
        ELSE [s2 EXCEPT
            !.outgoing_metadatas =
                IF should_update_outgoing_metadatas(stored)
                THEN update_on_receipt_pushed(@, shard, size, gas) ELSE @,
            !.outgoing_buffers[shard] = push_back(@, stored)]

\* buffer_receipt adding the gas to the delayed total
buffer_receipt_delayed_gas(self, receipt, size, gas, shard, use_state_stored_receipt) ==
    LET stored == IF use_state_stored_receipt THEN StateStoredReceipt(receipt, gas, size)
                  ELSE PlainReceipt(receipt)
        s1 == with_congestion_info(self, add_receipt_bytes(self.own_congestion_info, size))
        s2 == IF s1.err # "none" THEN s1
              ELSE with_congestion_info(s1, add_delayed_receipt_gas(s1.own_congestion_info, gas))
    IN  IF s2.err # "none" THEN s2
        ELSE [s2 EXCEPT
            !.outgoing_metadatas =
                IF should_update_outgoing_metadatas(stored)
                THEN update_on_receipt_pushed(@, shard, size, gas) ELSE @,
            !.outgoing_buffers[shard] = push_back(@, stored)]

\* buffer_receipt writing the receipt to the buffer before it adds to the totals
buffer_receipt_push_first(self, receipt, size, gas, shard, use_state_stored_receipt) ==
    LET stored == IF use_state_stored_receipt THEN StateStoredReceipt(receipt, gas, size)
                  ELSE PlainReceipt(receipt)
        s0 == [self EXCEPT
            !.outgoing_metadatas =
                IF should_update_outgoing_metadatas(stored)
                THEN update_on_receipt_pushed(@, shard, size, gas) ELSE @,
            !.outgoing_buffers[shard] = push_back(@, stored)]
        s1 == with_congestion_info(s0, add_receipt_bytes(s0.own_congestion_info, size))
    IN  IF s1.err # "none" THEN s1
        ELSE with_congestion_info(s1, add_buffered_receipt_gas(s1.own_congestion_info, gas))

buffer_receipt(self, receipt, size, gas, shard, use_state_stored_receipt) ==
    LET stored == IF use_state_stored_receipt THEN StateStoredReceipt(receipt, gas, size)
                  ELSE PlainReceipt(receipt)
        s1 == with_congestion_info(self, add_receipt_bytes(self.own_congestion_info, size))
        s2 == IF s1.err # "none" THEN s1
              ELSE with_congestion_info(s1, add_buffered_receipt_gas(s1.own_congestion_info, gas))
    IN  IF s2.err # "none" THEN s2
        ELSE [s2 EXCEPT
            !.outgoing_metadatas =
                IF should_update_outgoing_metadatas(stored)
                THEN update_on_receipt_pushed(@, shard, size, gas) ELSE @,
            !.outgoing_buffers[shard] = push_back(@, stored)]

\* forward_or_buffer_receipt taking Gas::MAX for a gas that overflows
forward_or_buffer_receipt_saturating(self, receipt, config) ==
    LET shard == account_id_to_shard_id(receipt.receiver_id)
        size == compute_receipt_size(receipt)
        computed == compute_receipt_congestion_gas(receipt, config)
        gas == IF computed.ok THEN computed ELSE Ok(GasMAX)
    IN  IF ~size.ok \/ ~gas.ok THEN [self EXCEPT !.err = "IntegerOverflow"]
        ELSE LET fw == try_forward(receipt, gas.val, size.val, shard, self, config)
             IN  IF fw.forwarding = "Forwarded" THEN fw.self
                 ELSE buffer_receipt(fw.self, receipt, size.val, gas.val, shard,
                                     config.use_state_stored_receipt)

\* forward_or_buffer_receipt that buffers, without asking try_forward, a
\* receipt for a shard whose buffer is not empty
forward_or_buffer_receipt_behind_buffer(self, receipt, config) ==
    LET shard == account_id_to_shard_id(receipt.receiver_id)
        size == compute_receipt_size(receipt)
        gas == compute_receipt_congestion_gas(receipt, config)
    IN  IF ~size.ok \/ ~gas.ok THEN [self EXCEPT !.err = "IntegerOverflow"]
        ELSE IF self.outgoing_buffers[shard] # <<>>
             THEN buffer_receipt(self, receipt, size.val, gas.val, shard,
                                 config.use_state_stored_receipt)
        ELSE LET fw == try_forward(receipt, gas.val, size.val, shard, self, config)
             IN  IF fw.forwarding = "Forwarded" THEN fw.self
                 ELSE buffer_receipt(fw.self, receipt, size.val, gas.val, shard,
                                     config.use_state_stored_receipt)

forward_or_buffer_receipt(self, receipt, config) ==
    LET shard == account_id_to_shard_id(receipt.receiver_id)
        size == compute_receipt_size(receipt)
        gas == compute_receipt_congestion_gas(receipt, config)
    IN  IF ~size.ok \/ ~gas.ok THEN [self EXCEPT !.err = "IntegerOverflow"]
        ELSE LET fw == try_forward(receipt, gas.val, size.val, shard, self, config)
             IN  IF fw.forwarding = "Forwarded" THEN fw.self
                 ELSE buffer_receipt(fw.self, receipt, size.val, gas.val, shard,
                                     config.use_state_stored_receipt)

\* self.outgoing_buffers.to_shard(shard_id).iter(&state_update.trie, true): the
\* iterator reads the trie the chunk started from, not the trie update, whose
\* writes an iteration sees only after a flush; it yields the receipts of the
\* queue that this trie holds
iter(self, shard_id) ==
    SelectSeq(self.outgoing_buffers[shard_id],
              LAMBDA stored : \E i \in 1..Len(self.trie[shard_id]) :
                                  self.trie[shard_id][i] = stored)

\* the loop of forward_from_buffer_to_shard over the receipts `queue` still
\* ahead of the iterator; `done` is what the loop has counted so far
RECURSIVE iterate_buffer(_, _, _, _, _)
iterate_buffer(self, shard_id, config, queue, done) ==
    IF queue = <<>> THEN [self |-> self, done |-> done]
    ELSE
        LET stored == Head(queue)
            gas == receipt_congestion_gas(stored, config)
            size == receipt_size(stored)
        IN  IF ~gas.ok \/ ~size.ok
            THEN [self |-> [self EXCEPT !.err = "IntegerOverflow"], done |-> done]
            ELSE
                LET fw == try_forward(stored.receipt, gas.val, size.val, shard_id, self, config)
                    s1 == with_congestion_info(fw.self,
                              remove_receipt_bytes(fw.self.own_congestion_info, size.val))
                    s2 == IF s1.err # "none" THEN s1
                          ELSE with_congestion_info(s1,
                                   remove_buffered_receipt_gas(s1.own_congestion_info, gas.val))
                IN  IF fw.forwarding = "NotForwarded" THEN [self |-> fw.self, done |-> done]
                    ELSE IF s2.err # "none" THEN [self |-> s2, done |-> done]
                    ELSE iterate_buffer(s2, shard_id, config, Tail(queue),
                             [num_forwarded |-> done.num_forwarded + 1,
                              outgoing_metadatas_updates |->
                                  IF should_update_outgoing_metadatas(stored)
                                  THEN Append(done.outgoing_metadatas_updates,
                                              [size |-> size.val, gas |-> gas.val])
                                  ELSE done.outgoing_metadatas_updates])

\* the loop of forward_from_buffer_to_shard going on after a NotForwarded
RECURSIVE iterate_buffer_no_break(_, _, _, _, _)
iterate_buffer_no_break(self, shard_id, config, queue, done) ==
    IF queue = <<>> THEN [self |-> self, done |-> done]
    ELSE
        LET stored == Head(queue)
            gas == receipt_congestion_gas(stored, config)
            size == receipt_size(stored)
        IN  IF ~gas.ok \/ ~size.ok
            THEN [self |-> [self EXCEPT !.err = "IntegerOverflow"], done |-> done]
            ELSE
                LET fw == try_forward(stored.receipt, gas.val, size.val, shard_id, self, config)
                    s1 == with_congestion_info(fw.self,
                              remove_receipt_bytes(fw.self.own_congestion_info, size.val))
                    s2 == IF s1.err # "none" THEN s1
                          ELSE with_congestion_info(s1,
                                   remove_buffered_receipt_gas(s1.own_congestion_info, gas.val))
                IN  IF fw.forwarding = "NotForwarded"
                    THEN iterate_buffer_no_break(fw.self, shard_id, config, Tail(queue), done)
                    ELSE IF s2.err # "none" THEN [self |-> s2, done |-> done]
                    ELSE iterate_buffer_no_break(s2, shard_id, config, Tail(queue),
                             [num_forwarded |-> done.num_forwarded + 1,
                              outgoing_metadatas_updates |->
                                  IF should_update_outgoing_metadatas(stored)
                                  THEN Append(done.outgoing_metadatas_updates,
                                              [size |-> size.val, gas |-> gas.val])
                                  ELSE done.outgoing_metadatas_updates])

\* `for (size, gas) in outgoing_metadatas_updates`
RECURSIVE apply_metadata_updates(_, _, _)
apply_metadata_updates(metadatas, shard_id, updates) ==
    IF updates = <<>> THEN metadatas
    ELSE apply_metadata_updates(
             update_on_receipt_popped(metadatas, shard_id, Head(updates).size, Head(updates).gas),
             shard_id, Tail(updates))

\* forward_from_buffer_to_shard whose loop does not stop at a NotForwarded
forward_from_buffer_to_shard_no_break(self, shard_id, config) ==
    LET it == iterate_buffer_no_break(self, shard_id, config, iter(self, shard_id),
                  [num_forwarded |-> 0, outgoing_metadatas_updates |-> <<>>])
    IN  IF it.self.err # "none" THEN it.self
        ELSE [it.self EXCEPT
            !.outgoing_buffers[shard_id] = pop_n(@, it.done.num_forwarded),
            !.outgoing_metadatas =
                apply_metadata_updates(@, shard_id, it.done.outgoing_metadatas_updates)]

\* forward_from_buffer_to_shard without the pop_n
forward_from_buffer_to_shard_no_pop(self, shard_id, config) ==
    LET it == iterate_buffer(self, shard_id, config, iter(self, shard_id),
                  [num_forwarded |-> 0, outgoing_metadatas_updates |-> <<>>])
    IN  IF it.self.err # "none" THEN it.self
        ELSE [it.self EXCEPT
            !.outgoing_metadatas =
                apply_metadata_updates(@, shard_id, it.done.outgoing_metadatas_updates)]

\* forward_from_buffer_to_shard that never removes from own_congestion_info
forward_from_buffer_to_shard_no_remove(self, shard_id, config) ==
    LET it == iterate_buffer(self, shard_id, config, iter(self, shard_id),
                  [num_forwarded |-> 0, outgoing_metadatas_updates |-> <<>>])
    IN  IF it.self.err # "none" THEN it.self
        ELSE [it.self EXCEPT
            !.own_congestion_info = self.own_congestion_info,
            !.outgoing_buffers[shard_id] = pop_n(@, it.done.num_forwarded),
            !.outgoing_metadatas =
                apply_metadata_updates(@, shard_id, it.done.outgoing_metadatas_updates)]

\* forward_from_buffer_to_shard popping one receipt more than it forwarded
forward_from_buffer_to_shard_pop_one_more(self, shard_id, config) ==
    LET it == iterate_buffer(self, shard_id, config, iter(self, shard_id),
                  [num_forwarded |-> 0, outgoing_metadatas_updates |-> <<>>])
    IN  IF it.self.err # "none" THEN it.self
        ELSE [it.self EXCEPT
            !.outgoing_buffers[shard_id] = pop_n(@, it.done.num_forwarded + 1),
            !.outgoing_metadatas =
                apply_metadata_updates(@, shard_id, it.done.outgoing_metadatas_updates)]

\* forward_from_buffer_to_shard that leaves the metadata of the shard as it was
forward_from_buffer_to_shard_no_metadata_update(self, shard_id, config) ==
    LET it == iterate_buffer(self, shard_id, config, iter(self, shard_id),
                  [num_forwarded |-> 0, outgoing_metadatas_updates |-> <<>>])
    IN  IF it.self.err # "none" THEN it.self
        ELSE [it.self EXCEPT
            !.outgoing_buffers[shard_id] = pop_n(@, it.done.num_forwarded)]

\* forward_from_buffer_to_shard popping from the back of the buffer
forward_from_buffer_to_shard_pop_back(self, shard_id, config) ==
    LET it == iterate_buffer(self, shard_id, config, iter(self, shard_id),
                  [num_forwarded |-> 0, outgoing_metadatas_updates |-> <<>>])
    IN  IF it.self.err # "none" THEN it.self
        ELSE [it.self EXCEPT
            !.outgoing_buffers[shard_id] = SubSeq(@, 1, Len(@) - it.done.num_forwarded),
            !.outgoing_metadatas =
                apply_metadata_updates(@, shard_id, it.done.outgoing_metadatas_updates)]

forward_from_buffer_to_shard(self, shard_id, config) ==
    LET it == iterate_buffer(self, shard_id, config, iter(self, shard_id),
                  [num_forwarded |-> 0, outgoing_metadatas_updates |-> <<>>])
    IN  IF it.self.err # "none" THEN it.self
        ELSE [it.self EXCEPT
            !.outgoing_buffers[shard_id] = pop_n(@, it.done.num_forwarded),
            !.outgoing_metadatas =
                apply_metadata_updates(@, shard_id, it.done.outgoing_metadatas_updates)]

\* forward_from_buffer draining only the shard the HashMap yields first
forward_from_buffer_first_only(self, shards, config) ==
    IF shards = <<>> THEN self ELSE forward_from_buffer_to_shard(self, Head(shards), config)

\* forward_from_buffer over `shards`, the keys of outgoing_limit in the order
\* the HashMap yields them
RECURSIVE forward_from_buffer(_, _, _)
forward_from_buffer(self, shards, config) ==
    IF shards = <<>> THEN self
    ELSE LET s1 == forward_from_buffer_to_shard(self, Head(shards), config)
         IN  IF s1.err # "none" THEN s1
             ELSE forward_from_buffer(s1, Tail(shards), config)

\* the orders in which a HashMap may yield the keys `keys`
RECURSIVE Orders(_)
Orders(keys) ==
    IF keys = {} THEN {<<>>}
    ELSE UNION {{<<k>> \o rest : rest \in Orders(keys \ {k})} : k \in keys}

(***************************************************************************)
(* ReceiptSink::new.  `advertised[shard]` is what the CongestionControl of *)
(* shard's congestion info answers for outgoing_gas_limit(own_shard) and   *)
(* outgoing_size_limit(own_shard).                                         *)
(***************************************************************************)
AdvertisedLimits(workload) ==
    IF workload \in {"drain", "window"} THEN
    { [shard_id \in InfoShards |-> [gas |-> 0, size |-> 500]],
      [shard_id \in InfoShards |-> [gas |-> 200, size |-> 1000000]] }
    ELSE IF workload = "limit" THEN
    \* the own shard's CongestionControl answers differently from the peer's
    { [shard_id \in InfoShards |->
          IF shard_id = own_shard THEN [gas |-> 0, size |-> 600]
          ELSE [gas |-> 1000, size |-> 500]] }
    ELSE IF workload = "setup" THEN
    { [shard_id \in InfoShards |-> [gas |-> 1500, size |-> 500]] }
    ELSE IF workload = "bootstrap" THEN
    { [shard_id \in InfoShards |-> [gas |-> 0, size |-> 3]],
      [shard_id \in InfoShards |-> [gas |-> 1000, size |-> 100]] }
    ELSE IF workload \in {"overflow", "totals"} THEN
    { [shard_id \in InfoShards |-> [gas |-> 0, size |-> 500]] }
    ELSE IF workload = "progress" THEN
    \* limits of the peer below, at and above the gas and the size of a buffered receipt
    { [shard_id \in InfoShards |->
          IF shard_id = own_shard THEN [gas |-> 0, size |-> 500] ELSE [gas |-> g, size |-> z]] :
      g \in {50, 150, 2000}, z \in {10, 500} }
    ELSE
    { [shard_id \in InfoShards |-> [gas |-> 1000, size |-> 25]] }

\* the limits without the special case of the own shard
new_outgoing_limit_no_own_case(advertised) ==
    [shard_id \in ShardIds |->
        IF shard_id \in InfoShards
        THEN OutgoingLimit(advertised[shard_id].gas, advertised[shard_id].size)
        ELSE NoLimit]

new_outgoing_limit(advertised) ==
    [shard_id \in ShardIds |->
        IF shard_id \in InfoShards
        THEN OutgoingLimit(IF shard_id # own_shard THEN advertised[shard_id].gas ELSE GasMAX,
                           advertised[shard_id].size)
        ELSE NoLimit]

(***************************************************************************)
(* Protocol versions.  A protocol version is known to the sink only by the *)
(* features it enables, so a version is the set of its enabled features.   *)
(***************************************************************************)
ProtocolFeatures == {"CongestionControl", "BandwidthScheduler"}

ProtocolVersions == SUBSET ProtocolFeatures

\* ProtocolFeature::enabled
enabled(feature, protocol_version) == feature \in protocol_version

\* Option<T>
None == [some |-> FALSE]

Some(v) == [some |-> TRUE, val |-> v]

\* BandwidthSchedulerOutput: the sink reads its params only
SchedulerOutput == [params |-> [max_receipt_size |-> 400]]

(***************************************************************************)
(* ReceiptSink, the enum over ReceiptSinkV1 and ReceiptSinkV2.  `sink` is  *)
(* the variant: "V1", "V2", or "panic" when ReceiptSink::new did not       *)
(* return.  A ReceiptSinkV1 has outgoing_receipts only; the other fields   *)
(* of `self` then keep the values NoSinkV2 gives them.                     *)
(***************************************************************************)
NoSinkV2 ==
    [own_congestion_info |-> CongestionInfoV1(0, 0, 0, own_shard),
     outgoing_limit |-> [shard_id \in ShardIds |-> NoLimit]]

\* ReceiptSink::new without the two debug_assert!
ReceiptSink_new_no_assert(protocol_version, advertised, prev_own_congestion_info, debug_assertions) ==
    IF prev_own_congestion_info.some
    THEN [sink |-> "V2",
          own_congestion_info |-> prev_own_congestion_info.val,
          outgoing_limit |-> new_outgoing_limit(advertised)]
    ELSE [sink |-> "V1"] @@ NoSinkV2

\* ReceiptSink::new.  debug_assertions: the build compiles debug_assert! in.
ReceiptSink_new(protocol_version, advertised, prev_own_congestion_info, debug_assertions) ==
    IF prev_own_congestion_info.some
    THEN IF debug_assertions /\ ~enabled("CongestionControl", protocol_version)
         THEN [sink |-> "panic"] @@ NoSinkV2
         ELSE [sink |-> "V2",
               own_congestion_info |-> prev_own_congestion_info.val,
               outgoing_limit |-> new_outgoing_limit(advertised)]
    ELSE IF debug_assertions /\ enabled("CongestionControl", protocol_version)
         THEN [sink |-> "panic"] @@ NoSinkV2
         ELSE [sink |-> "V1"] @@ NoSinkV2

\* ReceiptSinkV1::forward
ReceiptSinkV1_forward(self, receipt) ==
    [self EXCEPT !.outgoing_receipts = Append(@, receipt)]

\* ReceiptSink::forward_or_buffer_receipt without the match on the variant
ReceiptSink_forward_or_buffer_receipt_no_match(sink, self, receipt, config) ==
    forward_or_buffer_receipt(self, receipt, config)

\* ReceiptSink::forward_or_buffer_receipt
ReceiptSink_forward_or_buffer_receipt(sink, self, receipt, config) ==
    IF sink = "V1" THEN ReceiptSinkV1_forward(self, receipt)
    ELSE forward_or_buffer_receipt(self, receipt, config)

\* ReceiptSink::forward_from_buffer
ReceiptSink_forward_from_buffer(sink, self, shards, config) ==
    IF sink = "V1" THEN self
    ELSE forward_from_buffer(self, shards, config)

\* ReceiptSink::own_congestion_info answering Some for both variants
ReceiptSink_own_congestion_info_always_some(sink, self) ==
    Some(self.own_congestion_info)

\* ReceiptSink::own_congestion_info
ReceiptSink_own_congestion_info(sink, self) ==
    IF sink = "V1" THEN None
    ELSE Some(self.own_congestion_info)

\* the arguments ReceiptSink::new is called with for the first chunk
Setup(version, info, output, debug) ==
    [protocol_version |-> version, prev_own_congestion_info |-> info,
     bandwidth_scheduler_output |-> output, debug_assertions |-> debug]

\* "drain", "limit", "big" and "bootstrap" run the congestion-aware sink with or without
\* the bandwidth scheduler; "setup" calls ReceiptSink::new in every way
Setups(workload) ==
    IF workload = "drain" THEN
    { Setup({"CongestionControl", "BandwidthScheduler"},
            Some(CongestionInfoV1(0, 0, 0, allowed)), Some(SchedulerOutput), TRUE) :
        allowed \in {1} }
    ELSE IF workload = "limit" THEN
    { Setup({"CongestionControl"}, Some(CongestionInfoV1(0, 0, 0, allowed)), None, TRUE) :
        allowed \in {own_shard, 1} }
    ELSE IF workload \in {"big", "bootstrap"} THEN
    { Setup({"CongestionControl"}, Some(CongestionInfoV1(0, 0, 0, own_shard)), None, TRUE) }
    ELSE IF workload = "overflow" THEN
    \* the totals of StartQueue("overflow")
    { Setup({"CongestionControl"},
            Some(CongestionInfoV1(4 * U64_MAX, 0, 4 * 10, own_shard)), None, TRUE) }
    ELSE IF workload = "totals" THEN
    \* the totals of StartBuffers("totals")
    { Setup({"CongestionControl"},
            Some(CongestionInfoV1(0, 4 * U64_MAX, 4 * 10, own_shard)), None, TRUE) }
    ELSE
    { Setup(version, info, output, debug) :
        version \in ProtocolVersions,
        info \in {None, Some(CongestionInfoV1(0, 0, 0, own_shard))},
        output \in {None, Some(SchedulerOutput)},
        debug \in BOOLEAN }

(***************************************************************************)
(* Bandwidth requests.  A request is its destination, what it was made     *)
(* from, and the bytes it asks for.                                        *)
(***************************************************************************)
\* BandwidthRequest::make_max_receipt_size_request: the basic request
make_max_receipt_size_request(to_shard, params) ==
    [to_shard |-> to_shard, made_from |-> "max_receipt_size",
     bytes |-> params.max_receipt_size]

\* BandwidthRequest::make_from_receipt_sizes over the receipt groups of
\* `metadata`: no request when there is no group
make_from_receipt_sizes(to_shard, metadata, params) ==
    IF metadata.total_receipts_num = 0 THEN None
    ELSE Some([to_shard |-> to_shard, made_from |-> "receipt_sizes",
               bytes |-> metadata.total_size])

\* generate_bandwidth_request trusting any metadata there is
generate_bandwidth_request_any_metadata(self, to_shard, params) ==
    LET outgoing_receipts_buffer_len == Len(self.outgoing_buffers[to_shard])
        metadata == self.outgoing_metadatas[to_shard]
    IN  IF outgoing_receipts_buffer_len = 0 THEN None
        ELSE IF ~metadata.present
             THEN Some(make_max_receipt_size_request(to_shard, params))
        ELSE make_from_receipt_sizes(to_shard, metadata, params)

\* generate_bandwidth_request without the early return on an empty buffer
generate_bandwidth_request_no_empty_check(self, to_shard, params) ==
    LET outgoing_receipts_buffer_len == Len(self.outgoing_buffers[to_shard])
        metadata == self.outgoing_metadatas[to_shard]
    IN  IF ~metadata.present
        THEN Some(make_max_receipt_size_request(to_shard, params))
        ELSE IF metadata.total_receipts_num # outgoing_receipts_buffer_len
             THEN Some(make_max_receipt_size_request(to_shard, params))
        ELSE make_from_receipt_sizes(to_shard, metadata, params)

\* generate_bandwidth_request that never reads the metadata
generate_bandwidth_request_always_basic(self, to_shard, params) ==
    LET outgoing_receipts_buffer_len == Len(self.outgoing_buffers[to_shard])
    IN  IF outgoing_receipts_buffer_len = 0 THEN None
        ELSE Some(make_max_receipt_size_request(to_shard, params))

generate_bandwidth_request(self, to_shard, params) ==
    LET outgoing_receipts_buffer_len == Len(self.outgoing_buffers[to_shard])
        metadata == self.outgoing_metadatas[to_shard]
    IN  IF outgoing_receipts_buffer_len = 0 THEN None
        ELSE IF ~metadata.present
             THEN Some(make_max_receipt_size_request(to_shard, params))
        ELSE IF metadata.total_receipts_num # outgoing_receipts_buffer_len
             THEN Some(make_max_receipt_size_request(to_shard, params))
        ELSE make_from_receipt_sizes(to_shard, metadata, params)

\* `for shard_id in self.outgoing_buffers.shards()`, in ascending order
RECURSIVE collect_bandwidth_requests(_, _, _)
collect_bandwidth_requests(self, shards, params) ==
    IF shards = {} THEN <<>>
    ELSE LET shard_id == CHOOSE x \in shards : \A y \in shards : x <= y
             request == generate_bandwidth_request(self, shard_id, params)
         IN  (IF request.some THEN <<request.val>> ELSE <<>>)
                 \o collect_bandwidth_requests(self, shards \ {shard_id}, params)

\* ReceiptSinkV2::generate_bandwidth_requests.  The result is [err, val]:
\* err is "panic" when the expect() on bandwidth_scheduler_output fails.
\* generate_bandwidth_requests answering None where the expect() is
generate_bandwidth_requests_no_expect(self, protocol_version, bandwidth_scheduler_output) ==
    IF ~enabled("BandwidthScheduler", protocol_version) THEN [err |-> "none", val |-> None]
    ELSE IF ~bandwidth_scheduler_output.some THEN [err |-> "none", val |-> None]
    ELSE [err |-> "none",
          val |-> Some(collect_bandwidth_requests(self, ShardIds,
                           bandwidth_scheduler_output.val.params))]

generate_bandwidth_requests(self, protocol_version, bandwidth_scheduler_output) ==
    IF ~enabled("BandwidthScheduler", protocol_version) THEN [err |-> "none", val |-> None]
    ELSE IF ~bandwidth_scheduler_output.some THEN [err |-> "panic", val |-> None]
    ELSE [err |-> "none",
          val |-> Some(collect_bandwidth_requests(self, ShardIds,
                           bandwidth_scheduler_output.val.params))]

\* ReceiptSink::generate_bandwidth_requests asking the feature for both variants
ReceiptSink_generate_bandwidth_requests_by_feature(sink, self, protocol_version, bandwidth_scheduler_output) ==
    generate_bandwidth_requests(self, protocol_version, bandwidth_scheduler_output)

\* ReceiptSink::generate_bandwidth_requests
ReceiptSink_generate_bandwidth_requests(sink, self, protocol_version, bandwidth_scheduler_output) ==
    IF sink = "V1" THEN [err |-> "none", val |-> None]
    ELSE generate_bandwidth_requests(self, protocol_version, bandwidth_scheduler_output)

(***************************************************************************)
(* DelayedReceiptQueueWrapper.  `w` is the wrapper with its queue:         *)
(* queue, new_delayed_gas, new_delayed_bytes, removed_delayed_gas,         *)
(* removed_delayed_bytes, and err.                                         *)
(***************************************************************************)
DelayedReceiptQueueWrapper_new(queue) ==
    [queue |-> queue, new_delayed_gas |-> 0, new_delayed_bytes |-> 0,
     removed_delayed_gas |-> 0, removed_delayed_bytes |-> 0, err |-> "none"]

wrapper_push(w, receipt, config) ==
    LET gas == compute_receipt_congestion_gas(receipt, config)
        size == compute_receipt_size(receipt)
        stored == IF config.use_state_stored_receipt
                  THEN StateStoredReceipt(receipt, gas.val, size.val)
                  ELSE PlainReceipt(receipt)
        new_gas == safe_add_gas(w.new_delayed_gas, gas.val)
        new_bytes == safe_add_gas(w.new_delayed_bytes, size.val)
    IN  IF ~gas.ok \/ ~size.ok THEN [w EXCEPT !.err = "IntegerOverflow"]
        ELSE IF ~new_gas.ok THEN [w EXCEPT !.err = "IntegerOverflow"]
        ELSE IF ~new_bytes.ok
             THEN [w EXCEPT !.new_delayed_gas = new_gas.val, !.err = "IntegerOverflow"]
        ELSE [w EXCEPT !.new_delayed_gas = new_gas.val,
                       !.new_delayed_bytes = new_bytes.val,
                       !.queue = push_back(@, stored)]

wrapper_pop(w, config) ==
    IF w.queue = <<>> THEN w
    ELSE
        LET receipt == Head(w.queue)
            w1 == [w EXCEPT !.queue = Tail(@)]
            delayed_gas == receipt_congestion_gas(receipt, config)
            delayed_bytes == receipt_size(receipt)
            removed_gas == safe_add_gas(w.removed_delayed_gas, delayed_gas.val)
            removed_bytes == safe_add_gas(w.removed_delayed_bytes, delayed_bytes.val)
        IN  IF ~delayed_gas.ok \/ ~delayed_bytes.ok THEN [w1 EXCEPT !.err = "IntegerOverflow"]
            ELSE IF ~removed_gas.ok THEN [w1 EXCEPT !.err = "IntegerOverflow"]
            ELSE IF ~removed_bytes.ok
                 THEN [w1 EXCEPT !.removed_delayed_gas = removed_gas.val,
                                 !.err = "IntegerOverflow"]
            ELSE [w1 EXCEPT !.removed_delayed_gas = removed_gas.val,
                            !.removed_delayed_bytes = removed_bytes.val]

\* apply_congestion_changes that leaves out the popped receipts
apply_congestion_changes_no_remove(w, congestion) ==
    LET r1 == add_delayed_receipt_gas(congestion, w.new_delayed_gas)
        r3 == IF r1.ok THEN add_receipt_bytes(r1.val, w.new_delayed_bytes) ELSE r1
    IN  IF r3.ok THEN r3 ELSE [ok |-> FALSE, val |-> congestion]

\* apply_congestion_changes that hands the allowance to the own shard
apply_congestion_changes_own_allowed(w, congestion) ==
    LET r1 == add_delayed_receipt_gas(congestion, w.new_delayed_gas)
        r2 == IF r1.ok THEN remove_delayed_receipt_gas(r1.val, w.removed_delayed_gas) ELSE r1
        r3 == IF r2.ok THEN add_receipt_bytes(r2.val, w.new_delayed_bytes) ELSE r2
        r4 == IF r3.ok THEN remove_receipt_bytes(r3.val, w.removed_delayed_bytes) ELSE r3
    IN  IF r4.ok THEN Ok([r4.val EXCEPT !.allowed_shard = own_shard])
        ELSE [ok |-> FALSE, val |-> congestion]

\* apply_congestion_changes that removes the popped gas from the bytes
apply_congestion_changes_gas_as_bytes(w, congestion) ==
    LET r1 == add_delayed_receipt_gas(congestion, w.new_delayed_gas)
        r2 == IF r1.ok THEN remove_delayed_receipt_gas(r1.val, w.removed_delayed_gas) ELSE r1
        r3 == IF r2.ok THEN add_receipt_bytes(r2.val, w.new_delayed_bytes) ELSE r2
        r4 == IF r3.ok THEN remove_receipt_bytes(r3.val, w.removed_delayed_gas) ELSE r3
    IN  IF r4.ok THEN r4 ELSE [ok |-> FALSE, val |-> congestion]

\* the result is [ok, val]: val is the CongestionInfo as the call leaves it
apply_congestion_changes(w, congestion) ==
    LET r1 == add_delayed_receipt_gas(congestion, w.new_delayed_gas)
        r2 == IF r1.ok THEN remove_delayed_receipt_gas(r1.val, w.removed_delayed_gas) ELSE r1
        r3 == IF r2.ok THEN add_receipt_bytes(r2.val, w.new_delayed_bytes) ELSE r2
        r4 == IF r3.ok THEN remove_receipt_bytes(r3.val, w.removed_delayed_bytes) ELSE r3
    IN  IF r4.ok THEN r4
        ELSE [ok |-> FALSE,
              val |-> IF ~r1.ok THEN congestion ELSE IF ~r2.ok THEN r1.val
                      ELSE IF ~r3.ok THEN r2.val ELSE r3.val]

(***************************************************************************)
(* bootstrap_congestion_info.  The result is [ok, val]; not ok is the      *)
(* StorageInconsistentState error.                                         *)
(***************************************************************************)
\* one of the two loops: the gas and the bytes of `queue` added to `acc`
RECURSIVE bootstrap_loop(_, _, _)
bootstrap_loop(queue, config, acc) ==
    IF queue = <<>> \/ ~acc.ok THEN acc
    ELSE
        LET receipt == Head(queue)
            gas == receipt_congestion_gas(receipt, config)
            total_gas == IF gas.ok THEN safe_add_gas_to_u128(acc.gas, gas.val) ELSE Fail
            memory == receipt_size(receipt)
            bytes == IF memory.ok THEN safe_add_gas(acc.receipt_bytes, memory.val) ELSE Fail
        IN  IF ~total_gas.ok \/ ~bytes.ok THEN [acc EXCEPT !.ok = FALSE]
            ELSE bootstrap_loop(Tail(queue), config,
                     [ok |-> TRUE, gas |-> total_gas.val, receipt_bytes |-> bytes.val])

\* the loop over outgoing_buffers.shards()
RECURSIVE bootstrap_buffers(_, _, _, _)
bootstrap_buffers(buffers, shards, config, acc) ==
    IF shards = {} \/ ~acc.ok THEN acc
    ELSE LET shard == CHOOSE x \in shards : \A y \in shards : x <= y
         IN  bootstrap_buffers(buffers, shards \ {shard}, config,
                 bootstrap_loop(buffers[shard], config, acc))

\* bootstrap_congestion_info that leaves the delayed receipts out of receipt_bytes
bootstrap_congestion_info_no_delayed_bytes(delayed_queue, buffers, config, shard_id) ==
    LET delayed == bootstrap_loop(delayed_queue, config,
                       [ok |-> TRUE, gas |-> 0, receipt_bytes |-> 0])
        buffered == bootstrap_buffers(buffers, ShardIds, config,
                        [ok |-> delayed.ok, gas |-> 0, receipt_bytes |-> 0])
    IN  IF ~delayed.ok \/ ~buffered.ok THEN Fail
        ELSE Ok(CongestionInfoV1(delayed.gas, buffered.gas, buffered.receipt_bytes, shard_id))

\* bootstrap_congestion_info adding the gas of the buffers to the delayed gas
bootstrap_congestion_info_one_gas(delayed_queue, buffers, config, shard_id) ==
    LET delayed == bootstrap_loop(delayed_queue, config,
                       [ok |-> TRUE, gas |-> 0, receipt_bytes |-> 0])
        buffered == bootstrap_buffers(buffers, ShardIds, config,
                        [ok |-> delayed.ok, gas |-> delayed.gas,
                         receipt_bytes |-> delayed.receipt_bytes])
    IN  IF ~delayed.ok \/ ~buffered.ok THEN Fail
        ELSE Ok(CongestionInfoV1(buffered.gas, 0, buffered.receipt_bytes, shard_id))

bootstrap_congestion_info(delayed_queue, buffers, config, shard_id) ==
    LET delayed == bootstrap_loop(delayed_queue, config,
                       [ok |-> TRUE, gas |-> 0, receipt_bytes |-> 0])
        buffered == bootstrap_buffers(buffers, ShardIds, config,
                        [ok |-> delayed.ok, gas |-> 0, receipt_bytes |-> delayed.receipt_bytes])
    IN  IF ~delayed.ok \/ ~buffered.ok THEN Fail
        ELSE Ok(CongestionInfoV1(delayed.gas, buffered.gas, buffered.receipt_bytes, shard_id))

(***************************************************************************)
(* State.                                                                  *)
(***************************************************************************)
VARIABLES
    workload,             \* the workload of the run
    config,               \* apply_state.config of the chunk being applied
    chunk,                \* the number of the chunk being applied
    next_id,              \* the id of the next receipt the runtime produces
    own_congestion_info,  \* ReceiptSinkV2.own_congestion_info
    outgoing_receipts,    \* ReceiptSinkV2.outgoing_receipts
    outgoing_limit,       \* ReceiptSinkV2.outgoing_limit
    outgoing_buffers,     \* the outgoing buffers in the trie, per shard
    outgoing_metadatas,   \* ReceiptSinkV2.outgoing_metadatas
    err,                  \* the error a call returned ("none": none so far)
    forwarded,            \* the (shard, gas, size) try_forward forwarded, this chunk
    not_forwarded,        \* the shards try_forward answered NotForwarded for, this chunk
    wrapper,              \* the DelayedReceiptQueueWrapper with the delayed queue
    wrapper_applied,      \* apply_congestion_changes has consumed the wrapper
    initial_limit,        \* outgoing_limit as ReceiptSink::new built it
    start_buffers,        \* outgoing_buffers when the chunk started
    start_consistent,     \* the totals matched the queues when the chunk started
    offered,              \* the receipts offered to the sink, this chunk
    popped,               \* per shard, the receipt ids removed from its buffer
    last_op,              \* the operation called last
    sink,                 \* the variant of the ReceiptSink: "V1", "V2", "panic"
    protocol_version,     \* ReceiptSink::new's protocol_version
    prev_own_congestion_info,    \* ReceiptSink::new's prev_own_congestion_info
    bandwidth_scheduler_output,  \* ReceiptSink::new's bandwidth_scheduler_output
    debug_assertions,     \* the build has debug assertions
    bandwidth_requests    \* what generate_bandwidth_requests returned for the chunk

vars == <<workload, config, chunk, next_id, own_congestion_info, outgoing_receipts, outgoing_limit,
          outgoing_buffers, outgoing_metadatas, err, forwarded, not_forwarded, wrapper,
          wrapper_applied, initial_limit, start_buffers, start_consistent, offered,
          popped, last_op, sink, protocol_version, prev_own_congestion_info,
          bandwidth_scheduler_output, debug_assertions, bandwidth_requests>>

\* what ReceiptSink::new is called with and does not change within a run
setup_vars == <<protocol_version, bandwidth_scheduler_output, debug_assertions>>

\* generate_bandwidth_requests has not been called for the chunk
NotGenerated == [generated |-> FALSE]

\* the sink and the trie update it writes to, as the operators take them
Self ==
    [own_congestion_info |-> own_congestion_info, outgoing_receipts |-> outgoing_receipts,
     outgoing_limit |-> outgoing_limit, outgoing_buffers |-> outgoing_buffers,
     outgoing_metadatas |-> outgoing_metadatas, err |-> "none",
     forwarded |-> forwarded, not_forwarded |-> not_forwarded,
     trie |-> start_buffers]

\* the receipt ids a call removed from the buffers `before`
Removed(before, after) ==
    [d \in ShardIds |->
        LET left == {after[d][i].receipt.receipt_id : i \in 1..Len(after[d])}
            gone == SelectSeq(before[d], LAMBDA x : x.receipt.receipt_id \notin left)
        IN  [i \in 1..Len(gone) |-> gone[i].receipt.receipt_id]]

SetSelf(s) ==
    /\ own_congestion_info' = s.own_congestion_info
    /\ outgoing_receipts' = s.outgoing_receipts
    /\ outgoing_limit' = s.outgoing_limit
    /\ outgoing_buffers' = s.outgoing_buffers
    /\ outgoing_metadatas' = s.outgoing_metadatas
    /\ err' = s.err
    /\ forwarded' = s.forwarded
    /\ not_forwarded' = s.not_forwarded
    /\ popped' = [d \in ShardIds |-> popped[d] \o Removed(outgoing_buffers, s.outgoing_buffers)[d]]

(***************************************************************************)
(* Sums over the persisted queues.                                         *)
(***************************************************************************)
RECURSIVE SumGas(_, _)
SumGas(queue, cfg) ==
    IF queue = <<>> THEN 0
    ELSE receipt_congestion_gas(Head(queue), cfg).val + SumGas(Tail(queue), cfg)

RECURSIVE SumSize(_)
SumSize(queue) ==
    IF queue = <<>> THEN 0 ELSE receipt_size(Head(queue)).val + SumSize(Tail(queue))

RECURSIVE SumOver(_, _)
SumOver(f, shards) ==
    IF shards = {} THEN 0
    ELSE LET d == CHOOSE x \in shards : TRUE IN f[d] + SumOver(f, shards \ {d})

BuffersGas(buffers, cfg) == SumOver([d \in ShardIds |-> SumGas(buffers[d], cfg)], ShardIds)

BuffersSize(buffers) == SumOver([d \in ShardIds |-> SumSize(buffers[d])], ShardIds)

Consistent(info, buffers, delayed, cfg) ==
    /\ info.buffered_receipts_gas = BuffersGas(buffers, cfg)
    /\ info.delayed_receipts_gas = SumGas(delayed, cfg)
    /\ info.receipt_bytes = SumSize(delayed) + BuffersSize(buffers)

(***************************************************************************)
(* Initial state: the sink of the first chunk, built on empty queues with  *)
(* the CongestionInfo of the previous chunk header.                        *)
(***************************************************************************)
Init ==
    /\ workload \in Workloads
    /\ config \in {ConfigPlain, ConfigStateStored}
    /\ chunk = 1
    /\ next_id = 1
    /\ \E setup \in Setups(workload), advertised \in AdvertisedLimits(workload) :
           LET new == ReceiptSink_new(setup.protocol_version, advertised,
                                      setup.prev_own_congestion_info, setup.debug_assertions)
           IN  /\ protocol_version = setup.protocol_version
               /\ prev_own_congestion_info = setup.prev_own_congestion_info
               /\ bandwidth_scheduler_output = setup.bandwidth_scheduler_output
               /\ debug_assertions = setup.debug_assertions
               /\ sink = new.sink
               /\ own_congestion_info = new.own_congestion_info
               /\ outgoing_limit = new.outgoing_limit
               /\ err = IF new.sink = "panic" THEN "panic" ELSE "none"
    /\ bandwidth_requests = NotGenerated
    /\ outgoing_receipts = <<>>
    /\ outgoing_buffers = StartBuffers(workload)
    /\ outgoing_metadatas = [d \in ShardIds |-> NoMetadata]
    /\ forwarded = <<>>
    /\ not_forwarded = {}
    /\ wrapper = DelayedReceiptQueueWrapper_new(StartQueue(workload))
    /\ wrapper_applied = FALSE
    /\ initial_limit = outgoing_limit
    /\ start_buffers = outgoing_buffers
    /\ start_consistent = TRUE
    /\ offered = <<>>
    /\ popped = [d \in ShardIds |-> <<>>]
    /\ last_op = "new"

(***************************************************************************)
(* Initial state of a run in the upgrade window: the chunks applied before *)
(* use_state_stored_receipt was on have left a receipt in the buffer of    *)
(* shard 1, stored without metadata and accounted with the fees of         *)
(* ConfigPlain; the upgrade has brought ConfigStateStored,                 *)
(* ConfigHigherFees or ConfigLowerFees.                                    *)
(***************************************************************************)
LegacyReceipt ==
    MakeReceipt([receiver_id |-> "peer", kind |-> "Action", actions |-> 1,
                 prepaid_gas |-> 50, borsh_len |-> 10], 1)

LegacyCongestionInfo ==
    CongestionInfoV1(0, compute_receipt_congestion_gas(LegacyReceipt, ConfigPlain).val,
                     compute_receipt_size(LegacyReceipt).val, own_shard)

\* the buffer of shard 1 as those chunks have left it
LegacyBuffer == <<PlainReceipt(LegacyReceipt)>>

InitWindow ==
    /\ workload = "window"
    /\ config \in {ConfigStateStored, ConfigHigherFees, ConfigLowerFees}
    /\ chunk = 1
    /\ next_id = 2
    /\ protocol_version = {"CongestionControl", "BandwidthScheduler"}
    /\ prev_own_congestion_info = Some(LegacyCongestionInfo)
    /\ bandwidth_scheduler_output = Some(SchedulerOutput)
    /\ debug_assertions = TRUE
    /\ \E advertised \in AdvertisedLimits(workload) :
           LET new == ReceiptSink_new(protocol_version, advertised,
                                      prev_own_congestion_info, debug_assertions)
           IN  /\ sink = new.sink
               /\ own_congestion_info = new.own_congestion_info
               /\ outgoing_limit = new.outgoing_limit
               /\ err = IF new.sink = "panic" THEN "panic" ELSE "none"
    /\ bandwidth_requests = NotGenerated
    /\ outgoing_receipts = <<>>
    /\ outgoing_buffers = [d \in ShardIds |-> IF d = 1 THEN LegacyBuffer ELSE <<>>]
    /\ outgoing_metadatas = [d \in ShardIds |-> NoMetadata]
    /\ forwarded = <<>>
    /\ not_forwarded = {}
    /\ wrapper = DelayedReceiptQueueWrapper_new(<<>>)
    /\ wrapper_applied = FALSE
    /\ initial_limit = outgoing_limit
    /\ start_buffers = outgoing_buffers
    /\ start_consistent = Consistent(own_congestion_info, outgoing_buffers, <<>>, config)
    /\ offered = <<>>
    /\ popped = [d \in ShardIds |-> <<>>]
    /\ last_op = "new"

(***************************************************************************)
(* Actions: one per operation of the sink and of the wrapper.              *)
(***************************************************************************)
Running == err = "none" /\ wrapper.err = "none"

\* ReceiptSink::forward_or_buffer_receipt
ForwardOrBufferReceipt ==
    /\ Running
    /\ ~wrapper_applied
    /\ next_id <= MaxReceipts
    /\ \E input \in ReceiptInputs(workload) :
           LET receipt == MakeReceipt(input, next_id)
           IN  /\ SetSelf(ReceiptSink_forward_or_buffer_receipt(sink, Self, receipt, config))
               /\ offered' = Append(offered, receipt)
    /\ next_id' = next_id + 1
    /\ last_op' = "forward_or_buffer_receipt"
    /\ UNCHANGED <<setup_vars, sink, prev_own_congestion_info, bandwidth_requests, workload,
                   config, chunk, wrapper, wrapper_applied, initial_limit, start_buffers,
                   start_consistent>>

\* ReceiptSink::forward_from_buffer
ForwardFromBuffer ==
    /\ Running
    /\ ~wrapper_applied
    /\ \E shards \in Orders(outgoing_limit_keys(outgoing_limit)) :
           SetSelf(ReceiptSink_forward_from_buffer(sink, Self, shards, config))
    /\ last_op' = "forward_from_buffer"
    /\ UNCHANGED <<setup_vars, sink, prev_own_congestion_info, bandwidth_requests, workload,
                   config, chunk, next_id, wrapper, wrapper_applied, initial_limit,
                   start_buffers, start_consistent, offered>>

\* DelayedReceiptQueueWrapper::push
DelayedPush ==
    /\ Running
    /\ ~wrapper_applied
    /\ next_id <= MaxReceipts
    /\ \E input \in DelayedInputs(workload) :
           wrapper' = wrapper_push(wrapper, MakeReceipt(input, next_id), config)
    /\ next_id' = next_id + 1
    /\ last_op' = "push"
    /\ UNCHANGED <<setup_vars, sink, prev_own_congestion_info, bandwidth_requests, workload,
                   config, chunk, own_congestion_info, outgoing_receipts, outgoing_limit,
                   outgoing_buffers, outgoing_metadatas, err, forwarded, not_forwarded,
                   wrapper_applied, initial_limit, start_buffers, start_consistent,
                   offered, popped>>

\* DelayedReceiptQueueWrapper::pop
DelayedPop ==
    /\ Running
    /\ ~wrapper_applied
    /\ wrapper.queue # <<>>
    /\ wrapper' = wrapper_pop(wrapper, config)
    /\ last_op' = "pop"
    /\ UNCHANGED <<setup_vars, sink, prev_own_congestion_info, bandwidth_requests, workload,
                   config, chunk, next_id, own_congestion_info, outgoing_receipts,
                   outgoing_limit, outgoing_buffers, outgoing_metadatas, err, forwarded,
                   not_forwarded, wrapper_applied, initial_limit, start_buffers,
                   start_consistent, offered, popped>>

\* DelayedReceiptQueueWrapper::apply_congestion_changes, on the own_congestion_info
\* the sink answers, if it answers one
ApplyCongestionChanges ==
    /\ Running
    /\ ~wrapper_applied
    /\ LET info == ReceiptSink_own_congestion_info(sink, Self)
           r == apply_congestion_changes(wrapper, info.val)
       IN  IF info.some
           THEN /\ own_congestion_info' = r.val
                /\ err' = IF r.ok THEN "none" ELSE "IntegerOverflow"
           ELSE UNCHANGED <<own_congestion_info, err>>
    /\ wrapper_applied' = TRUE
    /\ last_op' = "apply_congestion_changes"
    /\ UNCHANGED <<setup_vars, sink, prev_own_congestion_info, bandwidth_requests, workload,
                   config, chunk, next_id, outgoing_receipts, outgoing_limit,
                   outgoing_buffers, outgoing_metadatas, forwarded, not_forwarded, wrapper,
                   initial_limit, start_buffers, start_consistent, offered, popped>>

\* ReceiptSink::generate_bandwidth_requests, when the chunk closes
GenerateBandwidthRequests ==
    /\ Running
    /\ wrapper_applied
    /\ ~bandwidth_requests.generated
    /\ LET r == ReceiptSink_generate_bandwidth_requests(sink, Self, protocol_version,
                                                        bandwidth_scheduler_output)
       IN  /\ bandwidth_requests' = [generated |-> TRUE, val |-> r.val]
           /\ err' = r.err
    /\ last_op' = "generate_bandwidth_requests"
    /\ UNCHANGED <<setup_vars, sink, prev_own_congestion_info, workload, config, chunk, next_id,
                   own_congestion_info, outgoing_receipts, outgoing_limit, outgoing_buffers,
                   outgoing_metadatas, forwarded, not_forwarded, wrapper, wrapper_applied,
                   initial_limit, start_buffers, start_consistent, offered, popped>>

\* The chunk ends and the next one starts: ReceiptSink::new and
\* DelayedReceiptQueueWrapper::new on the committed trie, with the config and
\* the congestion infos of the new chunk.
StartChunk ==
    /\ Running
    /\ wrapper_applied
    /\ config' \in Upgrades(config)
    /\ prev_own_congestion_info' = ReceiptSink_own_congestion_info(sink, Self)
    /\ \E advertised \in AdvertisedLimits(workload) :
           LET new == ReceiptSink_new(protocol_version, advertised,
                                      prev_own_congestion_info', debug_assertions)
           IN  /\ sink' = new.sink
               /\ own_congestion_info' = new.own_congestion_info
               /\ outgoing_limit' = new.outgoing_limit
               /\ err' = IF new.sink = "panic" THEN "panic" ELSE err
    /\ bandwidth_requests' = NotGenerated
    /\ outgoing_receipts' = <<>>
    /\ forwarded' = <<>>
    /\ not_forwarded' = {}
    /\ wrapper' = DelayedReceiptQueueWrapper_new(wrapper.queue)
    /\ wrapper_applied' = FALSE
    /\ initial_limit' = outgoing_limit'
    /\ start_buffers' = outgoing_buffers
    /\ start_consistent' =
           Consistent(own_congestion_info', outgoing_buffers, wrapper.queue, config')
    /\ offered' = <<>>
    /\ last_op' = "new"
    /\ UNCHANGED <<setup_vars, workload, next_id, outgoing_buffers, outgoing_metadatas, popped>>

NewChunk ==
    /\ chunk < MaxChunks
    /\ chunk' = chunk + 1
    /\ StartChunk

Next ==
    \/ ForwardOrBufferReceipt
    \/ ForwardFromBuffer
    \/ DelayedPush
    \/ DelayedPop
    \/ ApplyCongestionChanges
    \/ GenerateBandwidthRequests
    \/ NewChunk

Spec == Init /\ [][Next]_vars

\* A run in the upgrade window.  The runtime applies a chunk to its end:
\* once the receipts are processed it applies the congestion changes,
\* generates the bandwidth requests and goes on to the next chunk.
SpecWindow ==
    /\ InitWindow
    /\ [][Next]_vars
    /\ WF_vars(ApplyCongestionChanges)
    /\ WF_vars(GenerateBandwidthRequests)
    /\ WF_vars(NewChunk)

(***************************************************************************)
(* Draining without new receipts: the buffers hold receipts stored by      *)
(* earlier chunks, no receipt is offered and none is delayed, and every    *)
(* chunk calls forward_from_buffer once, then closes.  The chunks go on    *)
(* for ever; chunk counts them up to MaxChunks.                             *)
(***************************************************************************)
Buffered(input, id) ==
    LET receipt == MakeReceipt(input, id)
    IN  StateStoredReceipt(receipt,
                           compute_receipt_congestion_gas(receipt, ConfigStateStored).val,
                           compute_receipt_size(receipt).val)

\* the buffer of S3 for the peer, and one receipt for the shard no info names
ProgressBuffers ==
    [d \in ShardIds |->
        IF d = 1 THEN
        << Buffered([receiver_id |-> "peer", kind |-> "Action", actions |-> 1,
                     prepaid_gas |-> 50, borsh_len |-> 10], 1),
           Buffered([receiver_id |-> "peer", kind |-> "Action", actions |-> 1,
                     prepaid_gas |-> 850, borsh_len |-> 10], 2),
           Buffered([receiver_id |-> "peer", kind |-> "Action", actions |-> 1,
                     prepaid_gas |-> 0, borsh_len |-> 10], 3) >>
        ELSE IF d = 2 THEN
        << Buffered([receiver_id |-> "far", kind |-> "Data", actions |-> 0,
                     prepaid_gas |-> 0, borsh_len |-> 200], 4) >>
        ELSE <<>>]

RECURSIVE PushedAll(_, _, _)
PushedAll(metadatas, shard, buffer) ==
    IF buffer = <<>> THEN metadatas
    ELSE PushedAll(update_on_receipt_pushed(metadatas, shard,
                                            Head(buffer).metadata.congestion_size,
                                            Head(buffer).metadata.congestion_gas),
                   shard, Tail(buffer))

ProgressMetadatas ==
    PushedAll(PushedAll([d \in ShardIds |-> NoMetadata], 1, ProgressBuffers[1]),
              2, ProgressBuffers[2])

ProgressCongestionInfo ==
    CongestionInfoV1(0, BuffersGas(ProgressBuffers, ConfigStateStored),
                     BuffersSize(ProgressBuffers), own_shard)

InitDrain ==
    /\ workload = "progress"
    /\ config = ConfigStateStored
    /\ chunk = 1
    /\ next_id = 5
    /\ protocol_version = {"CongestionControl", "BandwidthScheduler"}
    /\ prev_own_congestion_info = Some(ProgressCongestionInfo)
    /\ bandwidth_scheduler_output = Some(SchedulerOutput)
    /\ debug_assertions = TRUE
    /\ \E advertised \in AdvertisedLimits(workload) :
           LET new == ReceiptSink_new(protocol_version, advertised,
                                      prev_own_congestion_info, debug_assertions)
           IN  /\ sink = new.sink
               /\ own_congestion_info = new.own_congestion_info
               /\ outgoing_limit = new.outgoing_limit
               /\ err = IF new.sink = "panic" THEN "panic" ELSE "none"
    /\ bandwidth_requests = NotGenerated
    /\ outgoing_receipts = <<>>
    /\ outgoing_buffers = ProgressBuffers
    /\ outgoing_metadatas = ProgressMetadatas
    /\ forwarded = <<>>
    /\ not_forwarded = {}
    /\ wrapper = DelayedReceiptQueueWrapper_new(<<>>)
    /\ wrapper_applied = FALSE
    /\ initial_limit = outgoing_limit
    /\ start_buffers = outgoing_buffers
    /\ start_consistent = Consistent(own_congestion_info, outgoing_buffers, <<>>, config)
    /\ offered = <<>>
    /\ popped = [d \in ShardIds |-> <<>>]
    /\ last_op = "new"

\* the one forward_from_buffer of the chunk
DrainOnce == last_op = "new" /\ ForwardFromBuffer

CloseAfterDrain == last_op = "forward_from_buffer" /\ ApplyCongestionChanges

NextChunk ==
    /\ last_op = "generate_bandwidth_requests"
    /\ chunk' = IF chunk < MaxChunks THEN chunk + 1 ELSE chunk
    /\ StartChunk

NextDrain ==
    \/ DrainOnce
    \/ CloseAfterDrain
    \/ GenerateBandwidthRequests
    \/ NextChunk

\* a step of NextDrain is a DrainOnce step exactly if it takes last_op from "new" to
\* "forward_from_buffer", and DrainOnce is enabled exactly where this action is
DrainStep ==
    /\ last_op = "new"
    /\ Running
    /\ ~wrapper_applied
    /\ last_op' = "forward_from_buffer"

SpecDrain ==
    /\ InitDrain
    /\ [][NextDrain]_vars
    /\ WF_last_op(DrainStep)
    /\ WF_vars(CloseAfterDrain)
    /\ WF_vars(GenerateBandwidthRequests)
    /\ WF_vars(NextChunk)

(***************************************************************************)
(* Notions the properties use.                                             *)
(***************************************************************************)
ShardOf(receipt) == account_id_to_shard_id(receipt.receiver_id)

\* the limit try_forward finds for shard d
EffectiveLimit(limits, d, cfg) ==
    IF limits[d].present THEN limits[d] ELSE default_outgoing_limit(cfg)

GasOf(receipt) == compute_receipt_congestion_gas(receipt, config).val

SizeOf(receipt) == compute_receipt_size(receipt).val

Last(seq) == seq[Len(seq)]

\* the receipts of a queue of stored receipts
Receipts(queue) == [i \in 1..Len(queue) |-> queue[i].receipt]

ToShard(receipts, d) == SelectSeq(receipts, LAMBDA r : ShardOf(r) = d)

Range(seq) == {seq[i] : i \in 1..Len(seq)}

NoDuplicates(seq) == \A i, j \in 1..Len(seq) : i # j => seq[i] # seq[j]

Ids(receipts) == [i \in 1..Len(receipts) |-> receipts[i].receipt_id]

Increasing(ids) == \A i, j \in 1..Len(ids) : i < j => ids[i] < ids[j]

RECURSIVE Concat(_, _)
Concat(f, shards) ==
    IF shards = {} THEN <<>>
    ELSE LET d == CHOOSE x \in shards : \A y \in shards : x <= y
         IN  f[d] \o Concat(f, shards \ {d})

\* the receipts of all outgoing buffers
AllBuffered(buffers) == Concat([d \in ShardIds |-> Receipts(buffers[d])], ShardIds)

RECURSIVE ForwardedGas(_, _)
ForwardedGas(log, d) ==
    IF log = <<>> THEN 0
    ELSE (IF Head(log).shard = d THEN Head(log).gas ELSE 0) + ForwardedGas(Tail(log), d)

RECURSIVE ForwardedSize(_, _)
ForwardedSize(log, d) ==
    IF log = <<>> THEN 0
    ELSE (IF Head(log).shard = d THEN Head(log).size ELSE 0) + ForwardedSize(Tail(log), d)

\* a successful forward_or_buffer_receipt of the congestion-aware sink
Offering == last_op' = "forward_or_buffer_receipt" /\ err' = "none" /\ sink = "V2"

(***************************************************************************)
(* C1: forward_or_buffer_receipt forwards a receipt (appends it to         *)
(* outgoing_receipts and subtracts its gas and size from the limit of its  *)
(* shard) if and only if the limit's gas exceeds its gas and the limit's   *)
(* size exceeds its size, both strictly; otherwise, also when a component  *)
(* equals the limit, the receipt goes to the buffer.                       *)
(***************************************************************************)
C1_ForwardIffStrictlyFits ==
    [][Offering =>
        LET r == Last(offered')
            d == ShardOf(r)
            limit == EffectiveLimit(outgoing_limit, d, config)
            fits == limit.gas > GasOf(r) /\ limit.size > SizeOf(r)
        IN  /\ fits <=> outgoing_receipts' = Append(outgoing_receipts, r)
            /\ fits => /\ outgoing_limit'[d] =
                              OutgoingLimit(limit.gas - GasOf(r), limit.size - SizeOf(r))
                       /\ outgoing_buffers' = outgoing_buffers
            /\ ~fits => /\ outgoing_receipts' = outgoing_receipts
                        /\ Len(outgoing_buffers'[d]) = Len(outgoing_buffers[d]) + 1
                        /\ Last(outgoing_buffers'[d]).receipt = r]_vars

\* a receipt whose gas and size both equal the remaining limit has been buffered
C1_Witness ==
    /\ last_op = "forward_or_buffer_receipt"
    /\ err = "none"
    /\ offered # <<>>
    /\ LET r == Last(offered)
           d == ShardOf(r)
       IN  /\ outgoing_limit[d].present
           /\ outgoing_limit[d].gas = GasOf(r)
           /\ outgoing_limit[d].size = SizeOf(r)
           /\ outgoing_buffers[d] # <<>>
           /\ Last(outgoing_buffers[d]).receipt = r
           /\ outgoing_receipts # <<>>

(***************************************************************************)
(* C2: when forward_or_buffer_receipt does not forward a receipt, the      *)
(* receipt is appended at the tail of the buffer of its shard, the own     *)
(* receipt_bytes grows by its size and buffered_receipts_gas by its gas,   *)
(* and outgoing_receipts and the limit values of the shard are unchanged.  *)
(***************************************************************************)
C2_BufferedEffects ==
    [][(Offering /\ Len(outgoing_receipts') = Len(outgoing_receipts)) =>
        LET r == Last(offered')
            d == ShardOf(r)
        IN  /\ Receipts(outgoing_buffers'[d]) = Append(Receipts(outgoing_buffers[d]), r)
            /\ \A other \in ShardIds \ {d} : outgoing_buffers'[other] = outgoing_buffers[other]
            /\ own_congestion_info' =
                   [own_congestion_info EXCEPT
                       !.receipt_bytes = @ + SizeOf(r),
                       !.buffered_receipts_gas = @ + GasOf(r)]
            /\ outgoing_receipts' = outgoing_receipts
            /\ EffectiveLimit(outgoing_limit', d, config) =
                   EffectiveLimit(outgoing_limit, d, config)]_vars

\* scenario S2: r1 forwarded, r2 buffered, gas +400, bytes +200, limit {400, 200}
C2_Witness ==
    /\ last_op = "forward_or_buffer_receipt"
    /\ err = "none"
    /\ Len(outgoing_receipts) = 1
    /\ GasOf(outgoing_receipts[1]) = 600
    /\ SizeOf(outgoing_receipts[1]) = 300
    /\ Len(outgoing_buffers[1]) = 1
    /\ own_congestion_info.buffered_receipts_gas = 400
    /\ own_congestion_info.receipt_bytes = 200
    /\ outgoing_limit[1] = OutgoingLimit(400, 200)

(***************************************************************************)
(* C3: after any sequence of successful forward_or_buffer_receipt and      *)
(* forward_from_buffer calls in a chunk, every receipt offered to the sink *)
(* or buffered when the chunk started is in exactly one place: once in     *)
(* outgoing_receipts or once in the buffer of its shard.                   *)
(***************************************************************************)
C3_ForwardedAndBufferedPartition ==
    err = "none" =>
        LET everywhere == outgoing_receipts \o AllBuffered(outgoing_buffers)
        IN  /\ NoDuplicates(everywhere)
            /\ Range(everywhere) = Range(offered) \cup Range(AllBuffered(start_buffers))
            /\ \A d \in ShardIds : \A i \in 1..Len(outgoing_buffers[d]) :
                   ShardOf(outgoing_buffers[d][i].receipt) = d

\* a receipt buffered at chunk start has been forwarded and an offered one is buffered
C3_Witness ==
    /\ err = "none"
    /\ \E r \in Range(AllBuffered(start_buffers)) : r \in Range(outgoing_receipts)
    /\ \E r \in Range(offered) : r \in Range(AllBuffered(outgoing_buffers))
    /\ \E r \in Range(offered) : r \in Range(outgoing_receipts)

(***************************************************************************)
(* C4: for every shard d, the gas of the receipts forwarded to d in the    *)
(* chunk sums to no more than d's initial outgoing gas limit, and their    *)
(* size to no more than d's initial outgoing size limit (in the            *)
(* congestion-aware sink: the legacy sink has no limits).                  *)
(***************************************************************************)
C4_ForwardedWithinInitialLimit ==
    sink = "V2" =>
        /\ Len(forwarded) = Len(outgoing_receipts)
        /\ \A i \in 1..Len(forwarded) : forwarded[i].shard = ShardOf(outgoing_receipts[i])
        /\ \A d \in ShardIds :
               /\ ForwardedGas(forwarded, d) <= EffectiveLimit(initial_limit, d, config).gas
               /\ ForwardedSize(forwarded, d) <= EffectiveLimit(initial_limit, d, config).size

\* receipts were forwarded to a shard until one did not fit what was left
C4_Witness ==
    \E d \in ShardIds \ {own_shard} :
        /\ d \in not_forwarded
        /\ ForwardedGas(forwarded, d) > 0
        /\ Len(ToShard(outgoing_receipts, d)) >= 2
        /\ outgoing_buffers[d] # <<>>

(***************************************************************************)
(* C5: if the totals of the own CongestionInfo equal the sums over the     *)
(* persisted queues when the chunk starts, then after the sink's and the   *)
(* wrapper's operations and apply_congestion_changes, buffered_receipts_gas*)
(* is the gas of all outgoing buffers, delayed_receipts_gas the gas of the *)
(* delayed queue, and receipt_bytes the size of all of them.               *)
(***************************************************************************)
C5_TotalsEqualQueueSums ==
    (start_consistent /\ wrapper_applied /\ err = "none") =>
        Consistent(own_congestion_info, outgoing_buffers, wrapper.queue, config)

\* receipts were drained, buffered, delayed and popped before the chunk closed
C5_Witness ==
    /\ start_consistent
    /\ wrapper_applied
    /\ err = "none"
    /\ wrapper.removed_delayed_gas > 0
    /\ wrapper.queue # <<>>
    /\ own_congestion_info.buffered_receipts_gas > 0
    /\ own_congestion_info.delayed_receipts_gas > 0

(***************************************************************************)
(* C6 as claimed: bootstrap_congestion_info on the state a chunk leaves    *)
(* returns the own_congestion_info the sink reported, in all four fields.  *)
(***************************************************************************)
Bootstrapped == bootstrap_congestion_info(wrapper.queue, outgoing_buffers, config, own_shard)

C6_Original_RoundTripAllFields ==
    (wrapper_applied /\ err = "none") =>
        Bootstrapped.ok /\ Bootstrapped.val = own_congestion_info

(***************************************************************************)
(* C6 as amended: if the totals matched the queues when the chunk started, *)
(* bootstrap_congestion_info on the state the chunk leaves returns the     *)
(* three totals the sink reported; its allowed_shard is the own shard,     *)
(* whatever allowed_shard the sink reported.                               *)
(***************************************************************************)
C6_RoundTripTotals ==
    (start_consistent /\ wrapper_applied /\ err = "none") =>
        /\ Bootstrapped.ok
        /\ Bootstrapped.val = [own_congestion_info EXCEPT !.allowed_shard = own_shard]

\* a chunk closed with delayed and buffered receipts and another allowed_shard
C6_Witness ==
    /\ start_consistent
    /\ wrapper_applied
    /\ err = "none"
    /\ wrapper.queue # <<>>
    /\ \E d \in ShardIds : outgoing_buffers[d] # <<>>
    /\ popped[1] # <<>>
    /\ own_congestion_info.allowed_shard # own_shard
    /\ Bootstrapped.val.receipt_bytes > 0

(***************************************************************************)
(* C7: the outgoing buffer of every shard is FIFO within and across chunks:*)
(* receipts are pushed in the order they were offered, and of two receipts *)
(* removed from a buffer the one removed earlier was pushed no later.      *)
(* Receipt ids grow in the order the receipts are offered, so the ids      *)
(* removed so far followed by the ids still buffered must grow.            *)
(***************************************************************************)
C7_BufferIsFifo ==
    \A d \in ShardIds : Increasing(popped[d] \o Ids(Receipts(outgoing_buffers[d])))

\* the oldest of three buffered receipts has been removed
C7_Witness ==
    \E d \in ShardIds :
        /\ Len(popped[d]) >= 1
        /\ Len(outgoing_buffers[d]) >= 2
        /\ chunk > 1

(***************************************************************************)
(* C8: forward_from_buffer stops at the first buffered receipt that does   *)
(* not fit the remaining limit: what it forwards to a shard is a prefix of *)
(* the shard's buffer, the buffer keeps the rest, and the receipt it stops *)
(* at does not fit; nothing behind that receipt is forwarded.              *)
(***************************************************************************)
Draining == last_op' = "forward_from_buffer" /\ err' = "none"

\* the receipts the step appended to outgoing_receipts
NewlyForwarded ==
    SubSeq(outgoing_receipts', Len(outgoing_receipts) + 1, Len(outgoing_receipts'))

C8_DrainStopsAtFirstMisfit ==
    [][Draining =>
        /\ SubSeq(outgoing_receipts', 1, Len(outgoing_receipts)) = outgoing_receipts
        /\ \A d \in ShardIds :
               LET queue == outgoing_buffers[d]
                   n == Len(ToShard(NewlyForwarded, d))
               IN  /\ n <= Len(queue)
                   /\ ToShard(NewlyForwarded, d) = Receipts(SubSeq(queue, 1, n))
                   /\ outgoing_buffers'[d] = SubSeq(queue, n + 1, Len(queue))
                   /\ ~outgoing_limit[d].present => n = 0
                   /\ (outgoing_limit[d].present /\ n < Len(queue)) =>
                          ~ /\ outgoing_limit'[d].gas > receipt_congestion_gas(queue[n + 1], config).val
                            /\ outgoing_limit'[d].size > receipt_size(queue[n + 1]).val]_vars

\* scenario S3: of [a, b, c] with gas limit 200, a is forwarded, b does not
\* fit, and c, which would fit, stays behind b
C8_Witness ==
    /\ sink = "V2"
    /\ last_op = "forward_from_buffer"
    /\ err = "none"
    /\ Len(outgoing_receipts) = 1
    /\ ShardOf(outgoing_receipts[1]) = 1
    /\ forwarded[1].gas = 100
    /\ Len(outgoing_buffers[1]) = 2
    /\ receipt_congestion_gas(outgoing_buffers[1][1], config).val = 900
    /\ receipt_congestion_gas(outgoing_buffers[1][2], config).val = 50
    /\ outgoing_limit[1] = OutgoingLimit(100, 999990)

(***************************************************************************)
(* C9 as claimed: once try_forward has answered NotForwarded for a shard,  *)
(* no later receipt for that shard is forwarded in the same chunk, whether *)
(* it comes from the buffer or is newly offered.                           *)
(***************************************************************************)
C9_Original_SaturatedForwardsNothing ==
    [][\A d \in ShardIds :
           (d \in not_forwarded /\ chunk' = chunk) =>
               ToShard(outgoing_receipts', d) = ToShard(outgoing_receipts, d)]_vars

(***************************************************************************)
(* C10 as claimed: per-shard order is preserved across the combined        *)
(* stream: of two receipts to the same shard, the later produced one is    *)
(* never in outgoing_receipts while the earlier one is still buffered, nor *)
(* before it in outgoing_receipts.                                         *)
(***************************************************************************)
C10_Original_OrderPreserved ==
    \A d \in ShardIds :
        /\ Increasing(Ids(ToShard(outgoing_receipts, d)))
        /\ \A r2 \in Range(ToShard(outgoing_receipts, d)) :
               \A r1 \in Range(Receipts(outgoing_buffers[d])) :
                   r2.receipt_id < r1.receipt_id

(***************************************************************************)
(* C11: for every shard d and every chunk, the number of receipts          *)
(* forwarded to d plus the number of receipts buffered for d during the    *)
(* chunk equals the number of receipts offered to the sink for d plus the  *)
(* number of receipts drains popped from d's buffer.                       *)
(***************************************************************************)
\* the ids drains removed from d's buffer in this chunk
PoppedInChunk(d) ==
    SelectSeq(popped[d], LAMBDA id :
        id \in Range(Ids(Receipts(start_buffers[d]))) \cup Range(Ids(offered)))

\* the receipts offered in this chunk that went to d's buffer
BufferedInChunk(d) ==
    SelectSeq(offered, LAMBDA r :
        r.receipt_id \in Range(popped[d]) \cup Range(Ids(Receipts(outgoing_buffers[d]))))

C11_ForwardedPlusBufferedCount ==
    err = "none" =>
        \A d \in ShardIds :
            Len(ToShard(outgoing_receipts, d)) + Len(BufferedInChunk(d)) =
                Len(ToShard(offered, d)) + Len(PoppedInChunk(d))

\* in a later chunk a shard has had a receipt forwarded when offered, one
\* buffered and one popped by a drain
C11_Witness ==
    /\ err = "none"
    /\ chunk > 1
    /\ \E d \in ShardIds :
           /\ Len(PoppedInChunk(d)) >= 1
           /\ Len(BufferedInChunk(d)) >= 1
           /\ Len(ToShard(outgoing_receipts, d)) > Len(PoppedInChunk(d))

(***************************************************************************)
(* C12: in legacy mode (ReceiptSink::V1) every offered receipt is appended *)
(* to outgoing_receipts, in the order offered and whatever any limit would *)
(* say; forward_from_buffer does nothing; and no sink operation writes an  *)
(* outgoing buffer, a metadata or the delayed queue, or fails.             *)
(***************************************************************************)
SinkOps == {"forward_or_buffer_receipt", "forward_from_buffer", "generate_bandwidth_requests"}

C12_LegacyForwardsEverything ==
    [][(sink = "V1" /\ last_op' \in SinkOps) =>
        /\ last_op' = "forward_or_buffer_receipt" =>
               outgoing_receipts' = Append(outgoing_receipts, Last(offered'))
        /\ last_op' # "forward_or_buffer_receipt" => outgoing_receipts' = outgoing_receipts
        /\ outgoing_receipts' = offered'
        /\ err' = "none"
        /\ UNCHANGED <<outgoing_buffers, outgoing_metadatas, outgoing_limit,
                       own_congestion_info, wrapper>>
        /\ \A d \in ShardIds : outgoing_buffers'[d] = <<>> /\ ~outgoing_metadatas'[d].present]_vars

\* a legacy sink has forwarded two receipts to one shard, the second larger
\* than the size limit a congestion-aware sink would have had for the shard,
\* and forward_from_buffer was called after them
C12_Witness ==
    /\ sink = "V1"
    /\ last_op = "forward_from_buffer"
    /\ Len(outgoing_receipts) >= 2
    /\ ShardOf(outgoing_receipts[1]) = ShardOf(outgoing_receipts[2])
    /\ SizeOf(outgoing_receipts[2]) > config.outgoing_receipts_usual_size_limit
    /\ \A advertised \in AdvertisedLimits(workload) :
           SizeOf(outgoing_receipts[2]) > advertised[1].size

(***************************************************************************)
(* C13: the own_congestion_info the sink answers is absent if and only if  *)
(* the sink is in legacy mode; a congestion-aware sink answers its         *)
(* own_congestion_info after any sequence of operations, failed ones       *)
(* included.                                                               *)
(***************************************************************************)
C13_OwnCongestionInfoAbsentIffLegacy ==
    sink # "panic" =>
        LET answer == ReceiptSink_own_congestion_info(sink, Self)
        IN  /\ ~answer.some <=> sink = "V1"
            /\ sink = "V2" => answer.val = own_congestion_info

\* a congestion-aware sink answers the info of a second chunk that buffered
\* receipts and closed
C13_Witness ==
    /\ sink = "V2"
    /\ chunk > 1
    /\ last_op = "generate_bandwidth_requests"
    /\ ReceiptSink_own_congestion_info(sink, Self).some
    /\ ReceiptSink_own_congestion_info(sink, Self).val.receipt_bytes > 0

(***************************************************************************)
(* C14 as claimed: ReceiptSink::new enforces "CongestionControl enabled    *)
(* for the protocol version iff a previous own_congestion_info is          *)
(* supplied": construction fails when the two disagree, and a constructed  *)
(* sink is congestion-aware exactly when the info was supplied.            *)
(***************************************************************************)
\* the feature and the supplied info of the construction of this chunk's sink disagree
Mismatch == enabled("CongestionControl", protocol_version) # prev_own_congestion_info.some

C14_Original_NewEnforcesBiconditional ==
    /\ Mismatch => sink = "panic"
    /\ sink # "panic" => (sink = "V2" <=> prev_own_congestion_info.some)

(***************************************************************************)
(* C14 as amended: the biconditional is a debug assertion.  ReceiptSink::  *)
(* new panics exactly when the build has debug assertions and the two      *)
(* disagree; in a build without them it constructs a sink whatever the     *)
(* feature says.  A constructed sink is congestion-aware exactly when the  *)
(* info was supplied.                                                      *)
(***************************************************************************)
C14_NewAssertsBiconditionalInDebug ==
    /\ sink = "panic" <=> (debug_assertions /\ Mismatch)
    /\ sink # "panic" => (sink = "V2" <=> prev_own_congestion_info.some)

\* without debug assertions and without the feature, a sink built with a
\* congestion info has buffered a receipt and forwarded another
C14_Witness ==
    /\ ~debug_assertions
    /\ ~enabled("CongestionControl", protocol_version)
    /\ prev_own_congestion_info.some
    /\ sink = "V2"
    /\ outgoing_receipts # <<>>
    /\ \E d \in ShardIds : outgoing_buffers[d] # <<>>

(***************************************************************************)
(* C15 as claimed: with the BandwidthScheduler feature on, for every shard *)
(* d, if d has a metadata whose total_receipts_num is the length of d's    *)
(* outgoing buffer the request emitted for d is the one made from the      *)
(* metadata's receipt sizes; otherwise the request emitted for d is the    *)
(* basic max_receipt_size request.                                         *)
(***************************************************************************)
\* generate_bandwidth_requests has answered a list of requests
Requested ==
    /\ bandwidth_requests.generated
    /\ err = "none"
    /\ bandwidth_requests.val.some

\* the requests emitted for shard d
RequestsTo(d) == SelectSeq(bandwidth_requests.val.val, LAMBDA request : request.to_shard = d)

MetadataComplete(d) ==
    /\ outgoing_metadatas[d].present
    /\ outgoing_metadatas[d].total_receipts_num = Len(outgoing_buffers[d])

FromMetadata(d) ==
    [to_shard |-> d, made_from |-> "receipt_sizes", bytes |-> outgoing_metadatas[d].total_size]

Basic(d) ==
    [to_shard |-> d, made_from |-> "max_receipt_size",
     bytes |-> bandwidth_scheduler_output.val.params.max_receipt_size]

C15_Original_RequestPerShard ==
    (Requested /\ enabled("BandwidthScheduler", protocol_version)) =>
        \A d \in ShardIds :
            IF MetadataComplete(d) THEN RequestsTo(d) = <<FromMetadata(d)>>
            ELSE RequestsTo(d) = <<Basic(d)>>

(***************************************************************************)
(* C15 as amended: the same for every shard d whose outgoing buffer is not *)
(* empty, when a congestion-aware sink that was given the scheduler output *)
(* answers the requests.                                                   *)
(***************************************************************************)
C15_RequestPerNonEmptyBuffer ==
    (Requested /\ enabled("BandwidthScheduler", protocol_version)) =>
        \A d \in ShardIds : outgoing_buffers[d] # <<>> =>
            IF MetadataComplete(d) THEN RequestsTo(d) = <<FromMetadata(d)>>
            ELSE RequestsTo(d) = <<Basic(d)>>

\* the upgrade window: a buffer holds a receipt stored before the metadata
\* existed and one stored after, and the basic request was emitted for it
C15_Witness ==
    /\ Requested
    /\ \E d \in ShardIds :
           /\ Len(outgoing_buffers[d]) = 2
           /\ outgoing_metadatas[d].present
           /\ outgoing_metadatas[d].total_receipts_num = 1
           /\ RequestsTo(d) = <<Basic(d)>>

(***************************************************************************)
(* C16: for a shard whose outgoing buffer is empty, forward_from_buffer    *)
(* changes nothing (the shard's buffer, metadata and limit and the         *)
(* receipts forwarded to it stay as they are; when every buffer is empty   *)
(* the call changes outgoing_receipts, own_congestion_info, the buffers    *)
(* and the metadatas not at all), and generate_bandwidth_requests emits no *)
(* request for the shard, with or without a metadata.                      *)
(***************************************************************************)
C16_EmptyBufferNoDrainNoRequest ==
    [][/\ last_op' = "forward_from_buffer" =>
           /\ \A d \in ShardIds : outgoing_buffers[d] = <<>> =>
                  /\ outgoing_buffers'[d] = <<>>
                  /\ outgoing_metadatas'[d] = outgoing_metadatas[d]
                  /\ outgoing_limit'[d] = outgoing_limit[d]
                  /\ ToShard(outgoing_receipts', d) = ToShard(outgoing_receipts, d)
           /\ (\A d \in ShardIds : outgoing_buffers[d] = <<>>) =>
                  UNCHANGED <<outgoing_receipts, own_congestion_info, outgoing_buffers,
                              outgoing_metadatas, outgoing_limit, err>>
       /\ (last_op' = "generate_bandwidth_requests" /\ bandwidth_requests'.val.some) =>
              \A d \in ShardIds : outgoing_buffers[d] = <<>> =>
                  \A i \in 1..Len(bandwidth_requests'.val.val) :
                      bandwidth_requests'.val.val[i].to_shard # d]_vars

\* a buffer was drained empty and has kept its metadata, another shard never
\* had one, and requests were generated with none for either
C16_Witness ==
    /\ Requested
    /\ last_op = "generate_bandwidth_requests"
    /\ \E d \in ShardIds :
           /\ popped[d] # <<>>
           /\ outgoing_buffers[d] = <<>>
           /\ outgoing_metadatas[d].present
           /\ RequestsTo(d) = <<>>
    /\ \E d \in ShardIds :
           /\ outgoing_buffers[d] = <<>>
           /\ ~outgoing_metadatas[d].present
           /\ RequestsTo(d) = <<>>

(***************************************************************************)
(* C17 as claimed: what generate_bandwidth_requests answers is absent if   *)
(* and only if the BandwidthScheduler feature is off for the sink's        *)
(* protocol version, whichever variant the sink is.                        *)
(***************************************************************************)
\* generate_bandwidth_requests has returned
Answered == bandwidth_requests.generated /\ err = "none"

C17_Original_AbsentIffFeatureOff ==
    Answered =>
        (~bandwidth_requests.val.some <=> ~enabled("BandwidthScheduler", protocol_version))

(***************************************************************************)
(* C17 as amended: what generate_bandwidth_requests answers is absent if   *)
(* and only if the sink is in legacy mode or the BandwidthScheduler        *)
(* feature is off for its protocol version.                                *)
(***************************************************************************)
C17_AbsentIffLegacyOrFeatureOff ==
    Answered =>
        (~bandwidth_requests.val.some <=>
            (sink = "V1" \/ ~enabled("BandwidthScheduler", protocol_version)))

\* a legacy sink, rightly built without a congestion info for a version
\* without CongestionControl, answers no requests although the version has
\* the BandwidthScheduler and the scheduler output was given
C17_Witness ==
    /\ Answered
    /\ sink = "V1"
    /\ debug_assertions
    /\ enabled("BandwidthScheduler", protocol_version)
    /\ bandwidth_scheduler_output.some
    /\ outgoing_receipts # <<>>
    /\ ~bandwidth_requests.val.some

(***************************************************************************)
(* C18 as claimed: a receipt to the sink's own shard is never buffered     *)
(* because of gas: whatever its gas and whatever gas was forwarded to the  *)
(* own shard before in the chunk, it is forwarded whenever the size left   *)
(* in the own shard's limit exceeds its size.                              *)
(***************************************************************************)
C18_Original_OwnShardNeverBufferedForGas ==
    [][(Offering /\ ShardOf(Last(offered')) = own_shard) =>
        LET r == Last(offered')
            limit == EffectiveLimit(outgoing_limit, own_shard, config)
        IN  limit.size > SizeOf(r) => outgoing_receipts' = Append(outgoing_receipts, r)]_vars

(***************************************************************************)
(* C19: if the congestion gas of an action receipt offered to the          *)
(* congestion-aware sink overflows u64, forward_or_buffer_receipt returns  *)
(* IntegerOverflow and leaves outgoing_receipts, every outgoing limit,     *)
(* every outgoing buffer and metadata and own_congestion_info as they      *)
(* were before the call.                                                   *)
(***************************************************************************)
C19_OverflowChangesNothing ==
    [][(last_op' = "forward_or_buffer_receipt" /\ sink = "V2"
            /\ Last(offered').kind = "Action"
            /\ ~compute_receipt_congestion_gas(Last(offered'), config).ok) =>
        /\ err' = "IntegerOverflow"
        /\ UNCHANGED <<outgoing_receipts, outgoing_limit, outgoing_buffers,
                       outgoing_metadatas, own_congestion_info>>]_vars

\* a sink that had forwarded and buffered receipts was offered a receipt
\* whose gas overflows only under the fees of the second chunk
C19_Witness ==
    /\ last_op = "forward_or_buffer_receipt"
    /\ err = "IntegerOverflow"
    /\ ~compute_receipt_congestion_gas(Last(offered), config).ok
    /\ compute_receipt_congestion_gas(Last(offered), ConfigPlain).ok
    /\ Len(offered) = 1
    /\ \E d \in ShardIds : outgoing_buffers[d] # <<>>
    /\ own_congestion_info.buffered_receipts_gas > 0

(***************************************************************************)
(* C20: bootstrap_congestion_info returns delayed_receipts_gas equal to    *)
(* the gas sum over the delayed queue, buffered_receipts_gas equal to the  *)
(* gas sum over the outgoing buffers of all shards, receipt_bytes equal to *)
(* the size sum over the delayed queue and all outgoing buffers, and       *)
(* allowed_shard equal to the shard id it is called with, the own shard.   *)
(***************************************************************************)
C20_BootstrapReturnsQueueSums ==
    LET delayed_gas == SumGas(wrapper.queue, config)
        buffered_gas == BuffersGas(outgoing_buffers, config)
        bytes == SumSize(wrapper.queue) + BuffersSize(outgoing_buffers)
    IN  \A shard_id \in ShardIds :
            \* Fail is the StorageInconsistentState error, which returns no sums
            bootstrap_congestion_info(wrapper.queue, outgoing_buffers, config, shard_id)
                \in {Fail, Ok(CongestionInfoV1(delayed_gas, buffered_gas, bytes, shard_id))}

\* scenario S4: the delayed queue sums to gas 1234 and 567 bytes, two
\* outgoing buffers to (10, 3) and (20, 4); the result is 1234 / 30 / 574 / own
C20_Witness ==
    /\ SumGas(wrapper.queue, config) = 1234
    /\ SumSize(wrapper.queue) = 567
    /\ \E d1, d2 \in ShardIds :
           /\ d1 # d2
           /\ SumGas(outgoing_buffers[d1], config) = 10 /\ SumSize(outgoing_buffers[d1]) = 3
           /\ SumGas(outgoing_buffers[d2], config) = 20 /\ SumSize(outgoing_buffers[d2]) = 4
           /\ \A d \in ShardIds \ {d1, d2} : outgoing_buffers[d] = <<>>
    /\ Bootstrapped.ok
    /\ Bootstrapped.val = CongestionInfoV1(1234, 30, 574, own_shard)

(***************************************************************************)
(* C21: after every successful forward_or_buffer_receipt and               *)
(* forward_from_buffer, for every shard d whose buffer holds only receipts *)
(* stored with metadata tracking, the total_receipts_num of d's metadata   *)
(* is the length of d's buffer; a push of a tracked receipt adds one to    *)
(* both, and a drain takes from the count the number of tracked receipts   *)
(* it removed from the buffer.                                             *)
(***************************************************************************)
\* the receipts of a queue that were stored with metadata tracking
Tracked(queue) == SelectSeq(queue, LAMBDA stored : should_update_outgoing_metadatas(stored))

FullyPopulated(queue) == Tracked(queue) = queue

C21_MetadataCountsBuffer ==
    [][(last_op' \in {"forward_or_buffer_receipt", "forward_from_buffer"} /\ err' = "none") =>
        \A d \in ShardIds :
            LET before == outgoing_buffers[d]
                after == outgoing_buffers'[d]
                count == outgoing_metadatas[d].total_receipts_num
            IN  /\ FullyPopulated(after) =>
                       outgoing_metadatas'[d].total_receipts_num = Len(after)
                /\ (last_op' = "forward_or_buffer_receipt" /\ Len(after) = Len(before) + 1
                        /\ should_update_outgoing_metadatas(Last(after))) =>
                       outgoing_metadatas'[d].total_receipts_num = count + 1
                /\ last_op' = "forward_from_buffer" =>
                       /\ Len(after) <= Len(before)
                       /\ outgoing_metadatas'[d].total_receipts_num =
                              count - Len(Tracked(SubSeq(before, 1, Len(before) - Len(after))))]_vars

\* a drain has removed a tracked receipt from a buffer of tracked receipts
\* and left one, after a tracked receipt was pushed to it in this chunk
C21_Witness ==
    /\ last_op = "forward_from_buffer"
    /\ err = "none"
    /\ \E d \in ShardIds :
           /\ outgoing_buffers[d] # <<>>
           /\ FullyPopulated(outgoing_buffers[d])
           /\ FullyPopulated(start_buffers[d])
           /\ Len(PoppedInChunk(d)) >= 1
           /\ Len(BufferedInChunk(d)) >= 1
           /\ outgoing_metadatas[d].total_receipts_num = Len(outgoing_buffers[d])

(***************************************************************************)
(* C22: the upgrade window.  While the buffer of a shard holds receipts    *)
(* stored without metadata (they are at its head, and the metadata counts  *)
(* fewer receipts than the buffer holds) the request generated for the     *)
(* shard is the basic max_receipt_size request.  No step adds such a       *)
(* receipt; a chunk whose drains remove receipts from the buffer removes   *)
(* at least one of them, so that as long as every chunk's drain forwards   *)
(* the head the buffer eventually holds none; the metadata then counts     *)
(* the buffer, and the request generated is the one made from the          *)
(* metadata.                                                               *)
(***************************************************************************)
\* the number of receipts in d's buffer stored without metadata tracking
Legacy(d) == Len(outgoing_buffers[d]) - Len(Tracked(outgoing_buffers[d]))

InWindow(d) == outgoing_buffers[d] # <<>> /\ ~MetadataComplete(d)

\* the chunk has ended, by its close or by an error, and no drain of the
\* chunk has removed a receipt from d's buffer
Stalled(d) ==
    /\ wrapper_applied \/ err # "none" \/ wrapper.err # "none"
    /\ PoppedInChunk(d) = <<>>

C22_LegacyWindowCloses ==
    /\ [](\A d \in ShardIds :
             /\ Legacy(d) > 0 <=> InWindow(d)
             /\ \A i \in 1..Legacy(d) : ~should_update_outgoing_metadatas(outgoing_buffers[d][i])
             /\ (Requested /\ InWindow(d)) => RequestsTo(d) = <<Basic(d)>>
             /\ (Requested /\ outgoing_buffers[d] # <<>> /\ Legacy(d) = 0) =>
                    MetadataComplete(d) /\ RequestsTo(d) = <<FromMetadata(d)>>)
    /\ [][\A d \in ShardIds : Legacy(d)' <= Legacy(d)]_vars
    /\ \A d \in ShardIds : \A k \in 1..Len(LegacyBuffer) :
           (Legacy(d) = k /\ PoppedInChunk(d) = <<>>) ~> (Legacy(d) < k \/ Stalled(d))

\* scenario S5: a chunk that started with 3 receipts in a buffer whose
\* metadata counted 2 has removed the oldest, and the request generated
\* for the 2 that are left is made from the metadata, which counts 2
C22_Witness ==
    /\ Requested
    /\ Len(start_buffers[1]) = 3
    /\ Len(Tracked(start_buffers[1])) = 2
    /\ ~should_update_outgoing_metadatas(start_buffers[1][1])
    /\ popped[1] = <<1>>
    /\ Len(outgoing_buffers[1]) = 2
    /\ outgoing_metadatas[1].total_receipts_num = 2
    /\ RequestsTo(1) = <<FromMetadata(1)>>

(***************************************************************************)
(* C23: the allowed_shard of the own_congestion_info of a congestion-aware *)
(* sink is the one the sink was constructed with, whatever operations of   *)
(* the sink (forward_or_buffer_receipt, forward_from_buffer,               *)
(* generate_bandwidth_requests) and of the delayed wrapper (push, pop,     *)
(* apply_congestion_changes) have been called, failed ones included.       *)
(***************************************************************************)
C23_AllowedShardKept ==
    sink = "V2" =>
        own_congestion_info.allowed_shard = prev_own_congestion_info.val.allowed_shard

\* a sink constructed with another shard allowed has buffered and drained
\* receipts, the wrapper has pushed and popped, the changes were applied
\* and the requests generated
C23_Witness ==
    /\ sink = "V2"
    /\ prev_own_congestion_info.val.allowed_shard # own_shard
    /\ last_op = "generate_bandwidth_requests"
    /\ wrapper.new_delayed_gas > 0
    /\ wrapper.removed_delayed_gas > 0
    /\ \E d \in ShardIds : PoppedInChunk(d) # <<>>
    /\ \E d \in ShardIds : BufferedInChunk(d) # <<>>
    /\ own_congestion_info # prev_own_congestion_info.val

(***************************************************************************)
(* C24: a forward_from_buffer call made after forward_or_buffer_receipt    *)
(* has buffered receipts in the same chunk does what it would do if those  *)
(* receipts were in the trie the chunk started from like the older ones:   *)
(* it returns the same result and leaves the same outgoing_receipts,       *)
(* limits, buffers, metadatas and own_congestion_info.  The receipts       *)
(* buffered in the chunk keep their place at the tail of the buffer, and   *)
(* when the drain has reached them (the older ones are gone) the first of  *)
(* them does not fit what is left of the limit.                            *)
(***************************************************************************)
\* the sink, had the trie update been flushed before the call
Flushed == [Self EXCEPT !.trie = outgoing_buffers]

\* the stored receipts of d's buffer that were pushed in this chunk
PushedInChunk(d) ==
    SelectSeq(outgoing_buffers[d], LAMBDA stored : stored.receipt \in Range(offered))

C24_DrainAfterBuffering ==
    [][(last_op' = "forward_from_buffer" /\ sink = "V2"
            /\ \E d \in ShardIds : PushedInChunk(d) # <<>>) =>
        /\ \E shards \in Orders({d \in ShardIds : outgoing_limit[d].present}) :
               LET flushed == forward_from_buffer(Flushed, shards, config)
               IN  /\ err' = flushed.err
                   /\ outgoing_receipts' = flushed.outgoing_receipts
                   /\ outgoing_limit' = flushed.outgoing_limit
                   /\ outgoing_buffers' = flushed.outgoing_buffers
                   /\ outgoing_metadatas' = flushed.outgoing_metadatas
                   /\ own_congestion_info' = flushed.own_congestion_info
        /\ \A d \in ShardIds :
               LET pushed == PushedInChunk(d)
                   left == outgoing_buffers'[d]
               IN  /\ Len(pushed) <= Len(left)
                   /\ SubSeq(left, Len(left) - Len(pushed) + 1, Len(left)) = pushed
                   /\ (pushed # <<>> /\ left = pushed) =>
                          ~ /\ outgoing_limit'[d].gas > receipt_congestion_gas(pushed[1], config).val
                            /\ outgoing_limit'[d].size > receipt_size(pushed[1]).val]_vars

\* a drain called after a receipt was buffered behind older receipts has
\* forwarded the older ones and left the buffer to the receipts of the chunk
C24_Witness ==
    /\ sink = "V2"
    /\ last_op = "forward_from_buffer"
    /\ err = "none"
    /\ \E d \in ShardIds :
           /\ PushedInChunk(d) # <<>>
           /\ outgoing_buffers[d] = PushedInChunk(d)
           /\ PoppedInChunk(d) # <<>>
           /\ outgoing_limit[d].gas > 0

(***************************************************************************)
(* C25 as claimed: whenever the congestion info the shard reports for a    *)
(* chunk has a non-zero buffered_receipts_gas, one of its outgoing buffers *)
(* is not empty in the state of the chunk, and whenever it has a non-zero  *)
(* delayed_receipts_gas its delayed receipt queue is not empty.            *)
(* The totals grow by the gas computed when a receipt is stored and shrink *)
(* by receipt_congestion_gas when it is removed, which prices a plain      *)
(* Receipt again with the configuration of the chunk that removes it: a    *)
(* receipt stored before an upgrade that lowers the fees leaves gas behind *)
(* in the totals when it goes, and the queue it left may be empty.         *)
(***************************************************************************)
\* the chunk has closed and the sink reports its own_congestion_info
Reported ==
    /\ sink = "V2"
    /\ wrapper_applied
    /\ err = "none"
    /\ wrapper.err = "none"

C25_Original_GasImpliesReceipts ==
    Reported =>
        /\ own_congestion_info.buffered_receipts_gas # 0 =>
               \E d \in ShardIds : outgoing_buffers[d] # <<>>
        /\ own_congestion_info.delayed_receipts_gas # 0 => wrapper.queue # <<>>

(***************************************************************************)
(* C26: a successful forward_from_buffer that forwards n receipts to a     *)
(* shard removes exactly the first n receipts of the shard's buffer and    *)
(* appends exactly those n receipts, in buffer order, to                   *)
(* outgoing_receipts; the buffer that remains is the old buffer without    *)
(* its first n elements.                                                   *)
(***************************************************************************)
\* the first n[d] receipts of every buffer, shard after shard in the order `shards`
RECURSIVE FirstOfBuffers(_, _)
FirstOfBuffers(shards, n) ==
    IF shards = <<>> THEN <<>>
    ELSE Receipts(SubSeq(outgoing_buffers[Head(shards)], 1, n[Head(shards)]))
             \o FirstOfBuffers(Tail(shards), n)

C26_DrainMovesFirstN ==
    [][Draining =>
        LET n == [d \in ShardIds |-> Len(outgoing_buffers[d]) - Len(outgoing_buffers'[d])]
        IN  /\ \A d \in ShardIds :
                   /\ n[d] >= 0
                   /\ outgoing_buffers'[d] =
                          SubSeq(outgoing_buffers[d], n[d] + 1, Len(outgoing_buffers[d]))
            /\ \E shards \in Orders(ShardIds) :
                   outgoing_receipts' = outgoing_receipts \o FirstOfBuffers(shards, n)]_vars

\* a drain has forwarded the first two of three buffered receipts
C26_Witness ==
    /\ sink = "V2"
    /\ last_op = "forward_from_buffer"
    /\ err = "none"
    /\ offered = <<>>
    /\ \E d \in ShardIds :
           /\ Len(start_buffers[d]) = 3
           /\ outgoing_buffers[d] = SubSeq(start_buffers[d], 3, 3)
           /\ outgoing_receipts = Receipts(SubSeq(start_buffers[d], 1, 2))

(***************************************************************************)
(* C27: for each receipt forward_from_buffer forwards out of a buffer, own *)
(* receipt_bytes is decreased by exactly that receipt's size and           *)
(* buffered_receipts_gas by exactly its gas, the gas and size being what   *)
(* receipt_congestion_gas and receipt_size return for it in the chunk;     *)
(* receipts left in the buffer cause no change to either total.            *)
(***************************************************************************)
\* the receipts the step removed from the head of d's buffer
TakenFrom(d) ==
    SubSeq(outgoing_buffers[d], 1, Len(outgoing_buffers[d]) - Len(outgoing_buffers'[d]))

C27_DrainDecreasesTotals ==
    [][(Draining /\ sink = "V2") =>
        LET taken == [d \in ShardIds |-> TakenFrom(d)]
        IN  /\ own_congestion_info'.receipt_bytes =
                   own_congestion_info.receipt_bytes - BuffersSize(taken)
            /\ own_congestion_info'.buffered_receipts_gas =
                   own_congestion_info.buffered_receipts_gas - BuffersGas(taken, config)]_vars

\* a drain has forwarded the head of a buffer and left the rest: the totals
\* are those of the chunk's start less the size and the gas of the head
C27_Witness ==
    /\ sink = "V2"
    /\ last_op = "forward_from_buffer"
    /\ err = "none"
    /\ offered = <<>>
    /\ \E d \in ShardIds :
           /\ Len(start_buffers[d]) >= 2
           /\ outgoing_buffers = [start_buffers EXCEPT ![d] = Tail(start_buffers[d])]
           /\ receipt_congestion_gas(Head(start_buffers[d]), config).val > 0
           /\ own_congestion_info.receipt_bytes =
                  prev_own_congestion_info.val.receipt_bytes
                      - receipt_size(Head(start_buffers[d])).val
           /\ own_congestion_info.buffered_receipts_gas =
                  prev_own_congestion_info.val.buffered_receipts_gas
                      - receipt_congestion_gas(Head(start_buffers[d]), config).val

(***************************************************************************)
(* C28: the limits a chunk starts with.  For the sink's own shard the gas  *)
(* limit is Gas::MAX while the size limit is the one its CongestionControl *)
(* answers; for every other shard with congestion info both limits are     *)
(* what its CongestionControl answers (outgoing_gas_limit and              *)
(* outgoing_size_limit); a shard without congestion info has no limit      *)
(* until the first try_forward for it, which uses gas = Gas::MAX and       *)
(* size = outgoing_receipts_usual_size_limit.                              *)
(***************************************************************************)
\* the limits of the chunk are built from what the shards advertise
LimitsFromAdvertised ==
    sink = "V2" =>
        /\ last_op = "new" => outgoing_limit = initial_limit
        /\ \E advertised \in AdvertisedLimits(workload) :
               /\ initial_limit[own_shard] = OutgoingLimit(GasMAX, advertised[own_shard].size)
               /\ \A d \in InfoShards \ {own_shard} :
                      initial_limit[d] = OutgoingLimit(advertised[d].gas, advertised[d].size)
               /\ \A d \in ShardIds \ InfoShards : ~initial_limit[d].present

\* the first try_forward for a shard without a limit decides by the default
FirstForwardUsesDefault ==
    Offering =>
        LET r == Last(offered')
            d == ShardOf(r)
            usual == config.outgoing_receipts_usual_size_limit
        IN  ~outgoing_limit[d].present =>
                /\ outgoing_limit'[d].present
                /\ IF GasMAX > GasOf(r) /\ usual > SizeOf(r)
                   THEN /\ outgoing_receipts' = Append(outgoing_receipts, r)
                        /\ outgoing_limit'[d] = OutgoingLimit(GasMAX - GasOf(r), usual - SizeOf(r))
                   ELSE /\ outgoing_receipts' = outgoing_receipts
                        /\ outgoing_limit'[d] = OutgoingLimit(GasMAX, usual)

C28_InitialLimits == []LimitsFromAdvertised /\ [][FirstForwardUsesDefault]_vars

\* the own shard started with Gas::MAX and a size limit that is not the usual
\* one, the peer with an advertised gas limit, and the shard without
\* congestion info has had its first receipt forwarded under the default
C28_Witness ==
    /\ sink = "V2"
    /\ err = "none"
    /\ initial_limit[own_shard].gas = GasMAX
    /\ initial_limit[own_shard].size # config.outgoing_receipts_usual_size_limit
    /\ initial_limit[1].present
    /\ initial_limit[1].gas < GasMAX
    /\ ~initial_limit[2].present
    /\ Len(forwarded) = 1
    /\ forwarded[1].shard = 2
    /\ forwarded[1].size > 0
    /\ outgoing_limit[2] =
           OutgoingLimit(GasMAX - forwarded[1].gas,
                         config.outgoing_receipts_usual_size_limit - forwarded[1].size)

(***************************************************************************)
(* C29: push and pop of the delayed wrapper accumulate the gas and the     *)
(* bytes of the receipts they push and pop in the wrapper's counters and   *)
(* leave the CongestionInfo untouched; a successful                        *)
(* apply_congestion_changes then changes it by exactly the accumulated     *)
(* counters: delayed_receipts_gas becomes old + pushed gas - popped gas    *)
(* and receipt_bytes becomes old + pushed bytes - popped bytes.            *)
(***************************************************************************)
\* a successful push or pop of the wrapper
Delaying == last_op' \in {"push", "pop"} /\ wrapper'.err = "none"

\* a successful apply_congestion_changes on the info of the congestion-aware sink
Applying == last_op' = "apply_congestion_changes" /\ err' = "none" /\ sink = "V2"

C29_ApplyCommitsCounters ==
    [][/\ Delaying =>
             /\ own_congestion_info' = own_congestion_info
             /\ last_op' = "push" =>
                    LET receipt == Last(wrapper'.queue).receipt
                    IN  /\ wrapper'.new_delayed_gas = wrapper.new_delayed_gas + GasOf(receipt)
                        /\ wrapper'.new_delayed_bytes = wrapper.new_delayed_bytes + SizeOf(receipt)
                        /\ wrapper'.removed_delayed_gas = wrapper.removed_delayed_gas
                        /\ wrapper'.removed_delayed_bytes = wrapper.removed_delayed_bytes
             /\ last_op' = "pop" =>
                    LET stored == Head(wrapper.queue)
                    IN  /\ wrapper'.removed_delayed_gas =
                               wrapper.removed_delayed_gas + receipt_congestion_gas(stored, config).val
                        /\ wrapper'.removed_delayed_bytes =
                               wrapper.removed_delayed_bytes + receipt_size(stored).val
                        /\ wrapper'.new_delayed_gas = wrapper.new_delayed_gas
                        /\ wrapper'.new_delayed_bytes = wrapper.new_delayed_bytes
       /\ Applying =>
             /\ own_congestion_info'.delayed_receipts_gas =
                    own_congestion_info.delayed_receipts_gas
                        + wrapper.new_delayed_gas - wrapper.removed_delayed_gas
             /\ own_congestion_info'.receipt_bytes =
                    own_congestion_info.receipt_bytes
                        + wrapper.new_delayed_bytes - wrapper.removed_delayed_bytes]_vars

\* receipts were pushed and popped in the chunk, more gas and bytes pushed
\* than popped, and apply_congestion_changes has moved the info by the difference
C29_Witness ==
    /\ sink = "V2"
    /\ last_op = "apply_congestion_changes"
    /\ err = "none"
    /\ offered = <<>>
    /\ outgoing_buffers = start_buffers
    /\ wrapper.removed_delayed_gas > 0
    /\ wrapper.new_delayed_gas > wrapper.removed_delayed_gas
    /\ own_congestion_info.delayed_receipts_gas =
           prev_own_congestion_info.val.delayed_receipts_gas
               + wrapper.new_delayed_gas - wrapper.removed_delayed_gas
    /\ own_congestion_info.receipt_bytes =
           prev_own_congestion_info.val.receipt_bytes
               + wrapper.new_delayed_bytes - wrapper.removed_delayed_bytes

(***************************************************************************)
(* C30: the sink's forward_or_buffer_receipt and forward_from_buffer never *)
(* change delayed_receipts_gas, and the delayed wrapper's                  *)
(* apply_congestion_changes never changes buffered_receipts_gas, whether   *)
(* the call succeeds or fails; receipt_bytes is the one total both write.  *)
(***************************************************************************)
C30_TotalsHaveOneWriter ==
    [][/\ last_op' \in {"forward_or_buffer_receipt", "forward_from_buffer"} =>
             own_congestion_info'.delayed_receipts_gas =
                 own_congestion_info.delayed_receipts_gas
       /\ last_op' = "apply_congestion_changes" =>
             own_congestion_info'.buffered_receipts_gas =
                 own_congestion_info.buffered_receipts_gas]_vars

\* in one chunk the sink has buffered a receipt and drained another and the
\* wrapper has pushed one: each gas total has moved by its writer's doing,
\* receipt_bytes by both
C30_Witness ==
    /\ sink = "V2"
    /\ last_op = "apply_congestion_changes"
    /\ err = "none"
    /\ \E d \in ShardIds : PushedInChunk(d) # <<>> /\ PoppedInChunk(d) # <<>>
    /\ wrapper.new_delayed_gas > 0
    /\ wrapper.removed_delayed_gas = 0
    /\ own_congestion_info.delayed_receipts_gas =
           prev_own_congestion_info.val.delayed_receipts_gas + wrapper.new_delayed_gas
    /\ own_congestion_info.buffered_receipts_gas #
           prev_own_congestion_info.val.buffered_receipts_gas
    /\ own_congestion_info.receipt_bytes =
           SumSize(wrapper.queue) + BuffersSize(outgoing_buffers)

(***************************************************************************)
(* C31: every accumulation of bootstrap_congestion_info is checked: it     *)
(* returns the sums when receipt_bytes over the delayed queue and all      *)
(* outgoing buffers fits u64 and each of the two gas sums fits its u128    *)
(* accumulator (and the gas and size of every receipt can be computed),    *)
(* and the StorageInconsistentState error otherwise, never a wrapped or    *)
(* saturated CongestionInfo.                                               *)
(***************************************************************************)
\* the gas and the size of every receipt of the queue can be computed
Computable(queue, cfg) ==
    \A i \in 1..Len(queue) :
        receipt_congestion_gas(queue[i], cfg).ok /\ receipt_size(queue[i]).ok

C31_BootstrapOverflowIsError ==
    LET delayed_gas == SumGas(wrapper.queue, config)
        buffered_gas == BuffersGas(outgoing_buffers, config)
        bytes == SumSize(wrapper.queue) + BuffersSize(outgoing_buffers)
        fits == /\ Computable(wrapper.queue, config)
                /\ \A d \in ShardIds : Computable(outgoing_buffers[d], config)
                /\ delayed_gas <= U128_MAX
                /\ buffered_gas <= U128_MAX
                /\ bytes <= U64_MAX
    IN  Bootstrapped =
            IF fits THEN Ok(CongestionInfoV1(delayed_gas, buffered_gas, bytes, own_shard))
            ELSE Fail

\* the receipts of the delayed queue and of a buffer have more than u64::MAX
\* bytes together, each sum of gas fits, and bootstrap_congestion_info fails
C31_Witness ==
    /\ Computable(wrapper.queue, config)
    /\ \A d \in ShardIds : Computable(outgoing_buffers[d], config)
    /\ SumGas(wrapper.queue, config) <= U128_MAX
    /\ \E d \in ShardIds : outgoing_buffers[d] # <<>>
    /\ SumSize(wrapper.queue) <= U64_MAX
    /\ BuffersSize(outgoing_buffers) <= U64_MAX
    /\ SumSize(wrapper.queue) + BuffersSize(outgoing_buffers) > U64_MAX
    /\ ~Bootstrapped.ok

(***************************************************************************)
(* C32: if forwarding a buffered receipt would take own receipt_bytes or   *)
(* buffered_receipts_gas below zero, forward_from_buffer returns an error  *)
(* rather than wrapping, and the failing call pops nothing from the buffer *)
(* of that shard.                                                          *)
(***************************************************************************)
\* the head of d's buffer fits d's limit, and the totals are smaller than its
\* size or its gas
HeadUnderflows(d) ==
    /\ outgoing_limit[d].present
    /\ outgoing_buffers[d] # <<>>
    /\ LET gas == receipt_congestion_gas(Head(outgoing_buffers[d]), config)
           size == receipt_size(Head(outgoing_buffers[d]))
       IN  /\ gas.ok /\ size.ok
           /\ outgoing_limit[d].gas > gas.val
           /\ outgoing_limit[d].size > size.val
           /\ \/ own_congestion_info.receipt_bytes < size.val
              \/ own_congestion_info.buffered_receipts_gas < gas.val

C32_UnderflowIsError ==
    [][(last_op' = "forward_from_buffer" /\ sink = "V2") =>
        /\ \A d \in ShardIds :
               HeadUnderflows(d) =>
                   /\ err' # "none"
                   /\ outgoing_buffers'[d] = outgoing_buffers[d]
        /\ err' # "none" =>
               /\ \E d \in ShardIds :
                      /\ outgoing_limit[d].present
                      /\ outgoing_buffers'[d] = outgoing_buffers[d]
                      /\ outgoing_buffers[d] # <<>>
               /\ own_congestion_info'.receipt_bytes \in 0..own_congestion_info.receipt_bytes
               /\ own_congestion_info'.buffered_receipts_gas
                      \in 0..own_congestion_info.buffered_receipts_gas]_vars

\* a drain has failed on a receipt whose gas, priced again after an upgrade,
\* is more than buffered_receipts_gas holds; the buffer still has the receipt
C32_Witness ==
    /\ sink = "V2"
    /\ last_op = "forward_from_buffer"
    /\ err = "IntegerOverflow"
    /\ chunk > 1
    /\ \E d \in ShardIds :
           /\ outgoing_buffers[d] = start_buffers[d]
           /\ outgoing_buffers[d] # <<>>
           /\ initial_limit[d].present
           /\ initial_limit[d].gas > receipt_congestion_gas(Head(outgoing_buffers[d]), config).val
           /\ prev_own_congestion_info.val.buffered_receipts_gas
                  < receipt_congestion_gas(Head(outgoing_buffers[d]), config).val

(***************************************************************************)
(* C33: generate_bandwidth_requests of the congestion-aware sink panics,   *)
(* returning neither a value nor an error, exactly when the                *)
(* BandwidthScheduler feature is enabled for the sink's protocol version   *)
(* and the sink was constructed without a bandwidth scheduler output.      *)
(***************************************************************************)
C33_MissingOutputPanics ==
    (sink = "V2" /\ bandwidth_requests.generated) =>
        /\ err = "panic" <=>
               /\ enabled("BandwidthScheduler", protocol_version)
               /\ ~bandwidth_scheduler_output.some
        /\ err = "panic" => ~bandwidth_requests.val.some
        /\ err \in {"none", "panic"}

\* a congestion-aware sink built without the scheduler output for a version
\* with the BandwidthScheduler has buffered a receipt and panicked when asked
\* for its requests
C33_Witness ==
    /\ sink = "V2"
    /\ bandwidth_requests.generated
    /\ last_op = "generate_bandwidth_requests"
    /\ enabled("BandwidthScheduler", protocol_version)
    /\ ~bandwidth_scheduler_output.some
    /\ \E d \in ShardIds : outgoing_buffers[d] # <<>>
    /\ err = "panic"

(***************************************************************************)
(* C34: the result of forward_from_buffer does not depend on the order in  *)
(* which the shards are visited: in whatever order the limit map yields    *)
(* its keys the call succeeds or fails alike, and when it succeeds the     *)
(* buffers, the remaining limits, the own congestion info, the metadata    *)
(* and, for every shard, the receipts forwarded to it are the same.        *)
(***************************************************************************)
C34_DrainOrderIrrelevant ==
    [][(last_op' = "forward_from_buffer" /\ sink = "V2") =>
        \A shards \in Orders({d \in ShardIds : outgoing_limit[d].present}) :
            LET s == forward_from_buffer(Self, shards, config)
            IN  /\ s.err = "none" <=> err' = "none"
                /\ err' = "none" =>
                       /\ s.outgoing_buffers = outgoing_buffers'
                       /\ s.outgoing_limit = outgoing_limit'
                       /\ s.own_congestion_info = own_congestion_info'
                       /\ s.outgoing_metadatas = outgoing_metadatas'
                       /\ \A d \in ShardIds :
                              ToShard(s.outgoing_receipts, d) = ToShard(outgoing_receipts', d)]_vars

\* one drain has forwarded receipts out of the buffers of two shards
C34_Witness ==
    /\ sink = "V2"
    /\ last_op = "forward_from_buffer"
    /\ err = "none"
    /\ offered = <<>>
    /\ \E d1, d2 \in ShardIds :
           /\ d1 # d2
           /\ Len(outgoing_buffers[d1]) < Len(start_buffers[d1])
           /\ Len(outgoing_buffers[d2]) < Len(start_buffers[d2])
           /\ ToShard(outgoing_receipts, d1) # <<>>
           /\ ToShard(outgoing_receipts, d2) # <<>>

(***************************************************************************)
(* C35: within a chunk the remaining gas and size limit of every shard     *)
(* never increase (a shard without an entry counting with the default      *)
(* limit its first try_forward inserts), and after every forward to a      *)
(* shard both remaining components of its limit are at least 1.            *)
(***************************************************************************)
C35_LimitsOnlyShrink ==
    [][(chunk' = chunk /\ sink = "V2") =>
        \A d \in ShardIds :
            LET before == EffectiveLimit(outgoing_limit, d, config)
                after == EffectiveLimit(outgoing_limit', d, config)
            IN  /\ outgoing_limit[d].present => outgoing_limit'[d].present
                /\ after.gas <= before.gas
                /\ after.size <= before.size
                /\ ToShard(outgoing_receipts', d) # ToShard(outgoing_receipts, d) =>
                       /\ after.gas >= 1
                       /\ after.size >= 1]_vars

\* two receipts have been forwarded to a shard in the chunk, on offer and by
\* a drain, and its limit is below the initial one in both components
C35_Witness ==
    /\ sink = "V2"
    /\ err = "none"
    /\ \E d \in ShardIds :
           /\ initial_limit[d].present
           /\ Len(ToShard(outgoing_receipts, d)) >= 2
           /\ PoppedInChunk(d) # <<>>
           /\ \E r \in Range(offered) : r \in Range(ToShard(outgoing_receipts, d))
           /\ outgoing_limit[d].gas < initial_limit[d].gas
           /\ outgoing_limit[d].size < initial_limit[d].size
           /\ outgoing_limit[d].gas >= 1

(***************************************************************************)
(* C36: a forward_or_buffer_receipt call for a shard d, and a drain of d,  *)
(* leave the remaining limit, the outgoing buffer and the metadata of      *)
(* every other shard unchanged.                                            *)
(***************************************************************************)
\* limit, buffer and metadata of every shard but d are in `s` what they are now
OthersKept(s, d) ==
    \A e \in ShardIds \ {d} :
        /\ s.outgoing_limit[e] = outgoing_limit[e]
        /\ s.outgoing_buffers[e] = outgoing_buffers[e]
        /\ s.outgoing_metadatas[e] = outgoing_metadatas[e]

\* limit, buffer and metadata of d are after the step what they are in `s`
SameAt(s, d) ==
    /\ outgoing_limit'[d] = s.outgoing_limit[d]
    /\ outgoing_buffers'[d] = s.outgoing_buffers[d]
    /\ outgoing_metadatas'[d] = s.outgoing_metadatas[d]

C36_OtherShardsUntouched ==
    [][/\ (last_op' = "forward_or_buffer_receipt" /\ sink = "V2") =>
             \A e \in ShardIds \ {ShardOf(Last(offered'))} :
                 /\ outgoing_limit'[e] = outgoing_limit[e]
                 /\ outgoing_buffers'[e] = outgoing_buffers[e]
                 /\ outgoing_metadatas'[e] = outgoing_metadatas[e]
       /\ (last_op' = "forward_from_buffer" /\ sink = "V2") =>
             \A d \in ShardIds :
                 LET s == forward_from_buffer_to_shard(Self, d, config)
                 IN  /\ OthersKept(s, d)
                     /\ (err' = "none" /\ outgoing_limit[d].present) => SameAt(s, d)]_vars

\* a receipt has gone to the buffer of one shard while another shard has a
\* limit, a buffer with a receipt and metadata of its own
C36_Witness ==
    /\ sink = "V2"
    /\ last_op = "forward_or_buffer_receipt"
    /\ err = "none"
    /\ \E e \in ShardIds \ {ShardOf(Last(offered))} :
           /\ outgoing_limit[e].present
           /\ outgoing_buffers[e] # <<>>
           /\ outgoing_metadatas[e].present
    /\ Last(offered) \in Range(Receipts(outgoing_buffers[ShardOf(Last(offered))]))

(***************************************************************************)
(* C37: forward_from_buffer drains only the shards that have an entry in   *)
(* the outgoing-limit map when it is called, which are the shards with     *)
(* advertised congestion info and the shards a forward_or_buffer_receipt   *)
(* of this chunk was for; the buffer of any other shard, empty or not, is  *)
(* left as it is by the call and none of its receipts is forwarded.        *)
(***************************************************************************)
\* the shards with an entry had one from ReceiptSink::new or were offered a receipt
EntriesFromNewOrOffer ==
    sink = "V2" =>
        \A d \in ShardIds :
            outgoing_limit[d].present =>
                \/ d \in InfoShards
                \/ \E i \in 1..Len(offered) : ShardOf(offered[i]) = d

NoEntryNoDrain ==
    (last_op' = "forward_from_buffer" /\ sink = "V2") =>
        \A d \in ShardIds :
            ~outgoing_limit[d].present =>
                /\ outgoing_buffers'[d] = outgoing_buffers[d]
                /\ ToShard(outgoing_receipts', d) = ToShard(outgoing_receipts, d)
                /\ outgoing_metadatas'[d] = outgoing_metadatas[d]
                /\ ~outgoing_limit'[d].present

C37_DrainsOnlyShardsWithLimit == []EntriesFromNewOrOffer /\ [][NoEntryNoDrain]_vars

\* a drain has gone by the buffer of the shard without congestion info,
\* although the receipt at its head would fit the default limit
C37_Witness ==
    /\ sink = "V2"
    /\ last_op = "forward_from_buffer"
    /\ err = "none"
    /\ offered = <<>>
    /\ ~outgoing_limit[2].present
    /\ outgoing_buffers[2] # <<>>
    /\ outgoing_buffers[2] = start_buffers[2]
    /\ default_outgoing_limit(config).gas > receipt_congestion_gas(Head(outgoing_buffers[2]), config).val
    /\ default_outgoing_limit(config).size > receipt_size(Head(outgoing_buffers[2])).val

(***************************************************************************)
(* C38: a receipt stored with metadata (use_state_stored_receipt on)       *)
(* carries the gas and the size that were added to the totals when it was  *)
(* pushed, and those are the gas and the size subtracted when it is        *)
(* drained from a buffer or popped from the delayed queue, whatever the    *)
(* fees of the config are by then; for a receipt stored plain the values   *)
(* are computed again with the config in force when it is read.            *)
(***************************************************************************)
\* the gas and the size read for the receipts of `queue` in this chunk
RECURSIVE ReadGas(_)
ReadGas(queue) ==
    IF queue = <<>> THEN 0
    ELSE (IF Head(queue).stored = "StateStoredReceipt"
          THEN Head(queue).metadata.congestion_gas
          ELSE compute_receipt_congestion_gas(Head(queue).receipt, config).val)
         + ReadGas(Tail(queue))

RECURSIVE ReadSize(_)
ReadSize(queue) ==
    IF queue = <<>> THEN 0
    ELSE (IF Head(queue).stored = "StateStoredReceipt"
          THEN Head(queue).metadata.congestion_size
          ELSE compute_receipt_size(Head(queue).receipt).val)
         + ReadSize(Tail(queue))

\* `stored` is `receipt` as the config of the chunk has it stored
StoredAsConfigured(stored, receipt) ==
    stored = IF config.use_state_stored_receipt
             THEN StateStoredReceipt(receipt, GasOf(receipt), SizeOf(receipt))
             ELSE PlainReceipt(receipt)

PushedWithWhatIsAdded ==
    /\ (Offering /\ outgoing_receipts' = outgoing_receipts) =>
           LET r == Last(offered')
           IN  /\ StoredAsConfigured(Last(outgoing_buffers'[ShardOf(r)]), r)
               /\ own_congestion_info'.buffered_receipts_gas =
                      own_congestion_info.buffered_receipts_gas + GasOf(r)
               /\ own_congestion_info'.receipt_bytes =
                      own_congestion_info.receipt_bytes + SizeOf(r)
    /\ (last_op' = "push" /\ wrapper'.err = "none") =>
           LET r == Last(wrapper'.queue).receipt
           IN  /\ StoredAsConfigured(Last(wrapper'.queue), r)
               /\ wrapper'.new_delayed_gas = wrapper.new_delayed_gas + GasOf(r)
               /\ wrapper'.new_delayed_bytes = wrapper.new_delayed_bytes + SizeOf(r)

RemovedWithWhatIsRead ==
    /\ (Draining /\ sink = "V2") =>
           /\ own_congestion_info.buffered_receipts_gas
                  - own_congestion_info'.buffered_receipts_gas =
                      SumOver([d \in ShardIds |-> ReadGas(TakenFrom(d))], ShardIds)
           /\ own_congestion_info.receipt_bytes - own_congestion_info'.receipt_bytes =
                  SumOver([d \in ShardIds |-> ReadSize(TakenFrom(d))], ShardIds)
    /\ (last_op' = "pop" /\ wrapper'.err = "none") =>
           /\ wrapper'.removed_delayed_gas - wrapper.removed_delayed_gas =
                  ReadGas(<<Head(wrapper.queue)>>)
           /\ wrapper'.removed_delayed_bytes - wrapper.removed_delayed_bytes =
                  ReadSize(<<Head(wrapper.queue)>>)

C38_MetadataKeepsWhatWasAdded == [][PushedWithWhatIsAdded /\ RemovedWithWhatIsRead]_vars

\* a receipt buffered with metadata under the old fees has been drained
\* under higher fees: the totals lost the gas of its metadata, which is not
\* the gas the new fees give it
C38_Witness ==
    /\ sink = "V2"
    /\ last_op = "forward_from_buffer"
    /\ err = "none"
    /\ offered = <<>>
    /\ config = ConfigHigherFees
    /\ \E d \in ShardIds :
           /\ start_buffers[d] # <<>>
           /\ outgoing_buffers = [start_buffers EXCEPT ![d] = Tail(start_buffers[d])]
           /\ Head(start_buffers[d]).stored = "StateStoredReceipt"
           /\ Head(start_buffers[d]).metadata.congestion_gas #
                  compute_receipt_congestion_gas(Head(start_buffers[d]).receipt, config).val
           /\ own_congestion_info.buffered_receipts_gas =
                  prev_own_congestion_info.val.buffered_receipts_gas
                      - Head(start_buffers[d]).metadata.congestion_gas

(***************************************************************************)
(* C39: draining makes progress.  Under SpecDrain (no receipt offered, one *)
(* forward_from_buffer per chunk): if at the start of every chunk the      *)
(* limit of d exceeds both the gas and the size of the receipt at the head *)
(* of d's buffer, the buffer of d eventually is empty and stays empty; and *)
(* in a chunk whose limit of d is missing or does not exceed the head's    *)
(* gas and size, the buffer of d stays as it was at the start of the       *)
(* chunk: the head is kept and so is every receipt behind it.  If that is  *)
(* so at the start of every chunk, the buffer of d never changes.          *)
(***************************************************************************)
HeadFits(buffer, limit, cfg) ==
    /\ buffer # <<>>
    /\ limit.present
    /\ limit.gas > receipt_congestion_gas(Head(buffer), cfg).val
    /\ limit.size > receipt_size(Head(buffer)).val

HeadFitsAtStart(d) ==
    last_op = "new" => (outgoing_buffers[d] = <<>>
                        \/ HeadFits(outgoing_buffers[d], outgoing_limit[d], config))

BlockedHeadStays ==
    \A d \in ShardIds :
        (start_buffers[d] # <<>> /\ ~HeadFits(start_buffers[d], initial_limit[d], config))
            => outgoing_buffers[d] = start_buffers[d]

HeadBlockedAtStart(d) ==
    last_op = "new" => ~HeadFits(outgoing_buffers[d], outgoing_limit[d], config)

C39_DrainProgress ==
    /\ []BlockedHeadStays
    /\ \A d \in ShardIds : []HeadFitsAtStart(d) => <>[](outgoing_buffers[d] = <<>>)
    /\ \A d \in ShardIds : []HeadBlockedAtStart(d) => [](outgoing_buffers[d] = ProgressBuffers[d])

\* the buffer of the peer was emptied over more than one chunk, head first, while
\* the receipt for the shard without a limit is still where it was
C39_Witness ==
    /\ workload = "progress"
    /\ chunk > 1
    /\ outgoing_buffers[1] = <<>>
    /\ popped[1] = <<1, 2, 3>>
    /\ Len(forwarded) < 3
    /\ outgoing_buffers[2] = ProgressBuffers[2]
    /\ ~outgoing_limit[2].present

(***************************************************************************)
(* C40: a forward_or_buffer_receipt call that returns an error (from the   *)
(* size or the gas computation, or from adding to receipt_bytes or to      *)
(* buffered_receipts_gas) has appended nothing to outgoing_receipts, has   *)
(* pushed nothing to any outgoing buffer and has decremented no limit: a   *)
(* limit entry the call found is as it was, one it inserted is the default.*)
(***************************************************************************)
OfferFailed == last_op' = "forward_or_buffer_receipt" /\ err' # "none"

FailedInBufferReceipt(receipt, cfg) ==
    /\ compute_receipt_size(receipt).ok
    /\ compute_receipt_congestion_gas(receipt, cfg).ok

C40_ErrorBeforeWriteKeepsQueues ==
    [][OfferFailed =>
        /\ outgoing_receipts' = outgoing_receipts
        /\ outgoing_buffers' = outgoing_buffers
        /\ \A d \in ShardIds :
               /\ outgoing_limit[d].present => outgoing_limit'[d] = outgoing_limit[d]
               /\ EffectiveLimit(outgoing_limit', d, config)
                      = EffectiveLimit(outgoing_limit, d, config)]_vars

\* adding the gas overflowed in buffer_receipt after the bytes had been added: the
\* receipt is in no buffer and in no list, the buffers are those the chunk started with
C40_Witness ==
    /\ last_op = "forward_or_buffer_receipt"
    /\ err = "IntegerOverflow"
    /\ FailedInBufferReceipt(Last(offered), config)
    /\ own_congestion_info.receipt_bytes =
           prev_own_congestion_info.val.receipt_bytes + compute_receipt_size(Last(offered)).val
    /\ outgoing_receipts = <<>>
    /\ outgoing_buffers = start_buffers
    /\ Len(outgoing_buffers[ShardOf(Last(offered))]) = 4
    /\ not_forwarded = {ShardOf(Last(offered))}
====
